---- MODULE Spec2Model ----
(***************************************************************************)
(* Model of the AIRLA logistics dispatcher: the Redis-backed StateManager, *)
(* the AgentOrchestrator's workflow graph and the worker agents that the   *)
(* orchestrator dispatches to.                                             *)
(*                                                                         *)
(* Abstractions (all stated where they are used):                          *)
(*   - order and vehicle ids are small integers handed out in creation     *)
(*     order, so the insertion order of the snapshot's dicts is id order;  *)
(*   - locations are points on a line (km) and _calculate_distance is the  *)
(*     absolute difference; volumes are tenths of a cubic metre;           *)
(*   - an agent's `messages` list is kept as the set of messages in it.    *)
(***************************************************************************)
EXTENDS Integers, Sequences, FiniteSets, TLC

\* ---------------------------------------------------------------- bounds
MaxOrders == 2
MaxVehicles == 2
MaxRuns == 2
MaxReports == 1
MaxQueue == 2
MaxClock == 1500
MaxBatch == 2
MaxRetryCount == 3
MaxLevel == 3
MaxElapsed == 35
ElapseStep == 5
MaxConflicts == 5
MaxHeld == 3
MaxRouteOrders == 3
MaxCargo == 3
MaxRoutes == 1

\* ------------------------------------------------------ program constants
STEP_CEILING == 20
SoftThreshold == 10
NoVehicleLimit == 3
RecursionLimit == 50
AvgOrderWeight == 15
AvgOrderVolume == 3
RetentionMinutes == 1440
BackupFleetThreshold == 3
PopulationCap == 20
Generations == 50

OrderIds == 1..MaxOrders
VehicleIds == 1..MaxVehicles

\* The inputs the environment draws from.
Priorities == {1, 5}
Places == {0, 10}
OrderWeights == {10}
OrderVolumes == {3}
VehicleMaxOrders == {1, 2}
VehicleCapacityWeights == {50}
VehicleCapacityVolumes == {30}

AgentNames == {"supervisor_agent", "order_ingestion_agent", "vehicle_assignment_agent",
               "route_planning_agent", "traffic_weather_agent", "exception_handling_agent"}

MessageType == {"order_update", "vehicle_update", "route_update", "system_alert",
                "coordination_request", "status_report", "new_order_created",
                "order_assigned", "delivery_completed", "emergency_alert"}

VARIABLES
    redis,                \* StateManager's keys: orders_key, vehicles_key, agents_key, state_key
    message_queue,        \* AgentOrchestrator.message_queue
    processed_orders,     \* AgentOrchestrator._processed_orders
    failed_assignments,   \* AgentOrchestrator._failed_assignments
    no_vehicle_attempts,  \* AgentOrchestrator._no_vehicle_attempts
    current_step_count,   \* AgentOrchestrator._current_step_count
    pc,                   \* the node the workflow graph runs next, or "idle"
    wstate,               \* the dict the workflow graph carries between nodes
    supersteps,           \* nodes the graph has run in this invocation
    outcome,              \* how the last run_workflow returned
    dispatches,           \* worker nodes run in this invocation
    runs,                 \* invocations of run_workflow so far
    messages,             \* BaseAgent.messages of every agent
    calculated_routes,    \* RoutePlanningAgent.calculated_routes (its keys)
    exception_agent,      \* ExceptionHandlingAgent: active_exceptions, exception_history, ...
    now,                  \* the wall clock, in minutes
    reports,              \* failure and status reports received so far
    conc,                 \* threads working on the store at once: positions, locals, last read
    is_running,           \* LogisticsSystem.is_running
    routing,              \* one route planning call: its inputs, loop state and result
    last_op               \* the operation that produced this state, with what it read

vars == <<redis, message_queue, processed_orders, failed_assignments, no_vehicle_attempts,
          current_step_count, pc, wstate, supersteps, outcome, dispatches, runs,
          messages, calculated_routes, exception_agent, now, reports, conc,
          is_running, routing, last_op>>

orchVars == <<processed_orders, failed_assignments, no_vehicle_attempts, current_step_count>>
graphVars == <<pc, wstate, supersteps, outcome, dispatches, runs>>

\* ------------------------------------------------------------ StateManager
Put(f, k, v) == [x \in DOMAIN f \cup {k} |-> IF x = k THEN v ELSE f[x]]

\* update_*: "for field, value in updates.items(): if hasattr(...): setattr(...)"
ApplyUpdates(rec, updates) ==
    [f \in DOMAIN rec |-> IF f \in DOMAIN updates THEN updates[f] ELSE rec[f]]

EmptyMap == [x \in {} |-> 0]

SystemState == [orders |-> EmptyMap, vehicles |-> EmptyMap, routes |-> {},
                agent_states |-> EmptyMap]

get_system_state(r) == r.state_key

add_order(r, id, order) ==
    [r EXCEPT !.orders_key = Put(@, id, order),
              !.state_key.orders = Put(@, id, order)]

\* update_order that writes whether or not the id is stored
update_order_upsert(r, order_id, updates) ==
    LET order == IF order_id \in DOMAIN r.orders_key
                 THEN ApplyUpdates(r.orders_key[order_id], updates) ELSE updates
    IN [r EXCEPT !.orders_key = Put(@, order_id, order),
                 !.state_key.orders = Put(@, order_id, order)]

\* update_order that rewrites the order's own record and leaves the snapshot
update_order_hash_only(r, order_id, updates) ==
    IF order_id \in DOMAIN r.orders_key
    THEN [r EXCEPT !.orders_key = Put(@, order_id, ApplyUpdates(@[order_id], updates))]
    ELSE r

update_order(r, order_id, updates) ==
    IF order_id \in DOMAIN r.orders_key
    THEN LET order == ApplyUpdates(r.orders_key[order_id], updates)
         IN [r EXCEPT !.orders_key = Put(@, order_id, order),
                      !.state_key.orders = Put(@, order_id, order)]
    ELSE r

\* add_vehicle that appends to the snapshot's vehicles instead of keying by id
add_vehicle_append(r, id, vehicle) ==
    [r EXCEPT !.vehicles_key = Put(@, id, vehicle),
              !.state_key.vehicles = Put(@, Cardinality(DOMAIN @) + 1, vehicle)]

add_vehicle(r, id, vehicle) ==
    [r EXCEPT !.vehicles_key = Put(@, id, vehicle),
              !.state_key.vehicles = Put(@, id, vehicle)]

update_vehicle(r, vehicle_id, updates) ==
    IF vehicle_id \in DOMAIN r.vehicles_key
    THEN LET vehicle == ApplyUpdates(r.vehicles_key[vehicle_id], updates)
         IN [r EXCEPT !.vehicles_key = Put(@, vehicle_id, vehicle),
                      !.state_key.vehicles = Put(@, vehicle_id, vehicle)]
    ELSE r

\* add_route: HSET routes_key, then state.routes[route_id] = route on the
\* snapshot just read (a route is kept by its id)
add_route(r, route_id) ==
    [r EXCEPT !.routes_key = @ \cup {route_id},
              !.state_key.routes = @ \cup {route_id}]

\* clear_all_data: the five keys are deleted and _initialize_state saves a
\* fresh SystemState()
clear_all_data(r) ==
    [orders_key |-> EmptyMap, vehicles_key |-> EmptyMap, routes_key |-> {},
     agents_key |-> EmptyMap, state_key |-> SystemState]

\* get_available_vehicles: the ids of the stored vehicles that are idle or assigned
get_available_vehicles(r) ==
    {v \in DOMAIN r.vehicles_key : r.vehicles_key[v].state \in {"idle", "assigned"}}

update_agent_state(r, agent_name, state) ==
    [r EXCEPT !.agents_key = Put(@, agent_name, state),
              !.state_key.agent_states = Put(@, agent_name, state)]

\* --------------------------------------------------------------- BaseAgent
\* send_message: MessageType(message_type), SYSTEM_ALERT when it is no enum value
ToMessageType(message_type) ==
    IF message_type \in MessageType THEN message_type ELSE "system_alert"

AgentMessage(sender, receiver, message_type, ref) ==
    [sender_agent |-> sender, recipient_agent |-> receiver,
     message_type |-> ToMessageType(message_type), ref |-> ref]

\* send_message appends the message to the SENDER's own list and returns it.
send_message(msgs, sender, receiver, message_type, ref) ==
    [msgs EXCEPT ![sender] = @ \cup {AgentMessage(sender, receiver, message_type, ref)}]

\* ------------------------------------------------- VehicleAssignmentAgent
RECURSIVE SeqOfSet(_)
\* The ids of a dict in its iteration order (insertion order, which is id order).
SeqOfSet(S) ==
    IF S = {} THEN <<>>
    ELSE LET m == CHOOSE x \in S : \A y \in S : x <= y
         IN <<m>> \o SeqOfSet(S \ {m})

RemoveAt(s, i) == SubSeq(s, 1, i - 1) \o SubSeq(s, i + 1, Len(s))

SeqToSet(s) == {s[i] : i \in 1..Len(s)}

RECURSIVE SortByPriorityDesc(_, _)
\* sorted(orders, key=lambda x: x.priority, reverse=True): stable
SortByPriorityDesc(ids, orders) ==
    IF ids = <<>> THEN <<>>
    ELSE LET best == CHOOSE i \in 1..Len(ids) :
                        /\ \A j \in 1..Len(ids) :
                              orders[ids[j]].priority <= orders[ids[i]].priority
                        /\ \A j \in 1..(i - 1) :
                              orders[ids[j]].priority < orders[ids[i]].priority
         IN <<ids[best]>> \o SortByPriorityDesc(RemoveAt(ids, best), orders)

\* VehicleAssignmentAgent._get_available_vehicles, over a snapshot
agent_get_available_vehicles(system_state) ==
    SeqOfSet({v \in DOMAIN system_state.vehicles :
        \/ system_state.vehicles[v].state = "idle"
        \/ /\ system_state.vehicles[v].state = "assigned"
           /\ Len(system_state.vehicles[v].assigned_orders)
                 < system_state.vehicles[v].max_orders})

calculate_current_weight(vehicle) == Len(vehicle.assigned_orders) * AvgOrderWeight

calculate_current_volume(vehicle) == Len(vehicle.assigned_orders) * AvgOrderVolume

check_capacity_constraints(vehicle, order) ==
    /\ ~(Len(vehicle.assigned_orders) >= vehicle.max_orders)
    /\ ~(calculate_current_weight(vehicle) + order.weight > vehicle.capacity_weight)
    /\ ~(calculate_current_volume(vehicle) + order.volume > vehicle.capacity_volume)

calculate_distance(location1, location2) ==
    IF location1 >= location2 THEN location1 - location2 ELSE location2 - location1

\* combined_score = 0.6 * distance / 50.0 + 0.4 * len(assigned_orders) / max_orders
\*                = ScoreNum / (250 * max_orders)
ScoreNum(vehicle, order) ==
    3 * calculate_distance(vehicle.current_location, order.pickup_location) * vehicle.max_orders
    + 100 * Len(vehicle.assigned_orders)

ScoreLess(a, b, order) == ScoreNum(a, order) * b.max_orders < ScoreNum(b, order) * a.max_orders

\* _find_balanced_vehicle: the first vehicle of the list with the least score among
\* those check_capacity_constraints admits; 0 stands for None.
find_balanced_vehicle(order, vehicles, vrec) ==
    LET ok == {i \in 1..Len(vehicles) : check_capacity_constraints(vrec[vehicles[i]], order)}
    IN IF ok = {} THEN 0
       ELSE LET best == CHOOSE i \in ok :
                   /\ \A j \in ok : ~ScoreLess(vrec[vehicles[j]], vrec[vehicles[i]], order)
                   /\ \A j \in ok : j < i =>
                         ScoreLess(vrec[vehicles[i]], vrec[vehicles[j]], order)
                            \/ ScoreLess(vrec[vehicles[j]], vrec[vehicles[i]], order)
            IN vehicles[best]

RECURSIVE SortByPriorityAsc(_, _)
\* sorted(orders, key=lambda x: x.priority): stable, lowest priority first
SortByPriorityAsc(ids, orders) ==
    IF ids = <<>> THEN <<>>
    ELSE LET least == CHOOSE i \in 1..Len(ids) :
                         /\ \A j \in 1..Len(ids) :
                               orders[ids[i]].priority <= orders[ids[j]].priority
                         /\ \A j \in 1..(i - 1) :
                               orders[ids[i]].priority < orders[ids[j]].priority
         IN <<ids[least]>> \o SortByPriorityAsc(RemoveAt(ids, least), orders)

RECURSIVE reassign_excess_orders(_, _, _, _, _, _)
\* The loop of rebalance_vehicle: `vehicle` is the object get_vehicle returned
\* and the receiving vehicles are the snapshot's objects; the loop changes
\* neither.
reassign_excess_orders(r, vehicle_id, vehicle, orders_to_reassign, available_vehicles, system_state) ==
    IF orders_to_reassign = <<>> THEN r
    ELSE LET o == Head(orders_to_reassign)
             best_vehicle == find_balanced_vehicle(system_state.orders[o], available_vehicles,
                                                   system_state.vehicles)
             updated_orders == SelectSeq(vehicle.assigned_orders, LAMBDA x : x # o)
             r1 == update_vehicle(r, vehicle_id, [assigned_orders |-> updated_orders])
             r2 == update_vehicle(r1, best_vehicle,
                       [assigned_orders |->
                            Append(system_state.vehicles[best_vehicle].assigned_orders, o),
                        state |-> "assigned"])
         IN reassign_excess_orders(IF best_vehicle # 0 THEN r2 ELSE r, vehicle_id, vehicle,
                                   Tail(orders_to_reassign), available_vehicles, system_state)

\* rebalance_vehicle(vehicle_id): the store it leaves
rebalance_vehicle(r, vehicle_id) ==
    IF vehicle_id \notin DOMAIN r.vehicles_key THEN r
    ELSE LET vehicle == r.vehicles_key[vehicle_id]
             system_state == get_system_state(r)
             assigned_orders == SelectSeq(vehicle.assigned_orders,
                                          LAMBDA o : o \in DOMAIN system_state.orders)
             excess_count == Len(vehicle.assigned_orders) - vehicle.max_orders
             sorted == SortByPriorityAsc(assigned_orders, system_state.orders)
             orders_to_reassign == SubSeq(sorted, 1,
                                          IF excess_count <= Len(sorted)
                                          THEN excess_count ELSE Len(sorted))
             available_vehicles == SelectSeq(agent_get_available_vehicles(system_state),
                                             LAMBDA v : v # vehicle_id)
         IN IF Len(vehicle.assigned_orders) <= vehicle.max_orders THEN r
            ELSE reassign_excess_orders(r, vehicle_id, vehicle, orders_to_reassign,
                                        available_vehicles, system_state)

RECURSIVE balanced_workload_assignment(_, _, _)
\* The vehicles are the snapshot's objects: nothing in the loop changes them.
balanced_workload_assignment(sorted_orders, vehicles, system_state) ==
    IF sorted_orders = <<>> THEN <<>>
    ELSE LET o == Head(sorted_orders)
             best_vehicle == find_balanced_vehicle(system_state.orders[o], vehicles,
                                                   system_state.vehicles)
             rest == balanced_workload_assignment(Tail(sorted_orders), vehicles, system_state)
         IN IF best_vehicle # 0
            THEN <<[order_id |-> o, vehicle_id |-> best_vehicle]>> \o rest
            ELSE rest

notify_assignment_completed(msgs, assignment) ==
    LET ref == <<assignment.order_id, assignment.vehicle_id>>
        m1 == send_message(msgs, "vehicle_assignment_agent", "supervisor_agent",
                           "assignment_completed", ref)
    IN send_message(m1, "vehicle_assignment_agent", "route_planning_agent",
                    "new_assignment_for_routing", ref)

\* One iteration of _execute_assignments' loop, on st = [redis, messages].
execute_assignment(st, assignment) ==
    LET r1 == update_order(st.redis, assignment.order_id, [state |-> "assigned"])
        r2 == IF assignment.vehicle_id \in DOMAIN r1.vehicles_key
              THEN update_vehicle(r1, assignment.vehicle_id,
                       [assigned_orders |->
                            Append(r1.vehicles_key[assignment.vehicle_id].assigned_orders,
                                   assignment.order_id),
                        state |-> "assigned"])
              ELSE r1
    IN [redis |-> r2, messages |-> notify_assignment_completed(st.messages, assignment)]

RECURSIVE execute_assignments(_, _)
execute_assignments(st, assignments) ==
    IF assignments = <<>> THEN st
    ELSE execute_assignments(execute_assignment(st, Head(assignments)), Tail(assignments))

\* VehicleAssignmentAgent.process on st = [redis, messages]: the new st and the result.
vehicle_assignment_process(st) ==
    LET r0 == update_agent_state(st.redis, "vehicle_assignment_agent", "executing")
        system_state == get_system_state(r0)
        unassigned_orders == SeqOfSet({o \in DOMAIN system_state.orders :
                                         system_state.orders[o].state = "new"})
        available_vehicles == agent_get_available_vehicles(system_state)
        assignments == balanced_workload_assignment(
                           SortByPriorityDesc(unassigned_orders, system_state.orders),
                           available_vehicles, system_state)
        done == execute_assignments([redis |-> r0, messages |-> st.messages], assignments)
        fin(r) == update_agent_state(r, "vehicle_assignment_agent", "monitoring")
    IN IF unassigned_orders = <<>>
       THEN [redis |-> fin(r0), messages |-> st.messages,
             result |-> [message |-> "no_orders_to_assign", assignments |-> <<>>]]
       ELSE IF available_vehicles = <<>>
       THEN [redis |-> fin(r0), messages |-> st.messages,
             result |-> [message |-> "no_vehicles_available", assignments |-> <<>>]]
       ELSE [redis |-> fin(done.redis), messages |-> done.messages,
             result |-> [message |-> "assignments", assignments |-> assignments]]

\* ------------------------------------------------------ RoutePlanningAgent
\* models.Location: `address: str` has no default, so constructing a Location
\* from a set of fields raises a ValidationError unless address is among them.
location_constructs(fields) == "address" \in fields

\* _get_vehicles_needing_routes, over a snapshot
get_vehicles_needing_routes(system_state, routes) ==
    SeqOfSet({v \in DOMAIN system_state.vehicles :
        /\ system_state.vehicles[v].state = "assigned"
        /\ system_state.vehicles[v].assigned_orders # <<>>
        /\ v \notin routes})

\* _plan_vehicle_route: "no_orders" when none of the assigned ids is a stored order
plan_status(v, system_state) ==
    IF \E i \in 1..Len(system_state.vehicles[v].assigned_orders) :
          system_state.vehicles[v].assigned_orders[i] \in DOMAIN system_state.orders
    THEN "success" ELSE "no_orders"

RECURSIVE execute_route_plans(_, _, _)
\* st = [redis, messages, error]; the loop stops at the first exception.
execute_route_plans(st, vehicles, system_state) ==
    IF vehicles = <<>> THEN st
    ELSE LET v == Head(vehicles) IN
         IF plan_status(v, system_state) # "success"
         THEN execute_route_plans(st, Tail(vehicles), system_state)
         ELSE LET r1 == update_vehicle(st.redis, v, [state |-> "moving"]) IN
              IF ~location_constructs({"latitude", "longitude"})
              THEN [st EXCEPT !.redis = r1, !.error = TRUE]
              ELSE LET r2 == [r1 EXCEPT !.routes_key = @ \cup {v},
                                        !.state_key.routes = @ \cup {v}]
                       m1 == send_message(st.messages, "route_planning_agent",
                                          "supervisor_agent", "route_planned", <<v>>)
                       m2 == send_message(m1, "route_planning_agent",
                                          "traffic_weather_agent", "monitor_route", <<v>>)
                   IN execute_route_plans([st EXCEPT !.redis = r2, !.messages = m2],
                                          Tail(vehicles), system_state)

\* process without its finally clause
route_planning_no_finally(r) == r

\* "finally: self.update_state(AgentState.MONITORING)"
route_planning_finally(r) == update_agent_state(r, "route_planning_agent", "monitoring")

\* RoutePlanningAgent.process on st = [redis, messages, calculated_routes]
route_planning_process(st) ==
    LET r0 == update_agent_state(st.redis, "route_planning_agent", "executing")
        system_state == get_system_state(r0)
        needing == get_vehicles_needing_routes(system_state, st.calculated_routes)
        planned == {v \in SeqToSet(needing) : plan_status(v, system_state) = "success"}
        done == execute_route_plans([redis |-> r0, messages |-> st.messages, error |-> FALSE],
                                    needing, system_state)
        fin(r) == route_planning_finally(r)
    IN IF needing = <<>>
       THEN [redis |-> fin(r0), messages |-> st.messages,
             calculated_routes |-> st.calculated_routes,
             result |-> [message |-> "no_routes_needed"]]
       ELSE [redis |-> fin(done.redis), messages |-> done.messages,
             calculated_routes |-> st.calculated_routes \cup planned,
             result |-> [message |-> IF done.error THEN "error" ELSE "routes_planned"]]

\* ------------------------------------------------------ OrderIngestionAgent
\* process with a list of already validated submissions: add_order and the two
\* notifications for each.
notify_new_order(msgs, id) ==
    LET m1 == send_message(msgs, "order_ingestion_agent", "supervisor_agent",
                           "new_order_created", <<id>>)
    IN send_message(m1, "order_ingestion_agent", "vehicle_assignment_agent",
                    "order_ready_for_assignment", <<id>>)

NewOrder(priority, weight, volume, pickup) ==
    [state |-> "new", priority |-> priority, weight |-> weight, volume |-> volume,
     pickup_location |-> pickup]

\* OrderIngestionAgent.process({"orders": [order_data]}) for one valid submission
order_ingestion_process(st, id, order) ==
    LET r0 == update_agent_state(st.redis, "order_ingestion_agent", "executing")
        r1 == add_order(r0, id, order)
    IN [redis |-> update_agent_state(r1, "order_ingestion_agent", "monitoring"),
        messages |-> notify_new_order(st.messages, id)]

\* process(state) as the graph calls it: the state holds no "orders", nothing is created
order_ingestion_node(r) ==
    update_agent_state(update_agent_state(r, "order_ingestion_agent", "executing"),
                       "order_ingestion_agent", "monitoring")

\* A raw submission, reduced to what _validate_order_data and _create_order
\* read: whether customer_id is present, the fields of its two locations (both
\* carry the same ones), its priority, and its time window. Times are minutes.
Submission(customer_id, location, priority, window) ==
    [customer_id |-> customer_id, location |-> location, priority |-> priority,
     window |-> window]

TimeWindow(has_start, start, has_end, end) ==
    [has_start |-> has_start, start |-> start, has_end |-> has_end, end |-> end]

\* _validate_location: latitude and longitude must be present (their values
\* are numbers in range in every submission drawn here)
validate_location(fields) ==
    {"Missing location field: " \o f : f \in {"latitude", "longitude"} \ fields}

\* _validate_order_data: the list of errors, as a set; the time window is
\* looked at only when the submission carries both a start and an end
validate_order_data(d, clock) ==
    (IF d.customer_id THEN {} ELSE {"Missing required field: customer_id"})
    \cup validate_location(d.location)
    \cup (IF d.priority \in 1..5 THEN {}
          ELSE {"Priority must be an integer between 1 and 5"})
    \cup (IF d.window.has_start /\ d.window.has_end
          THEN (IF d.window.start >= d.window.end
                THEN {"Time window start must be before end"} ELSE {})
               \cup (IF d.window.start < clock
                     THEN {"Time window start cannot be in the past"} ELSE {})
          ELSE {})

\* _create_order raises when Location(**order_data["pickup_location"]) does
create_order_raises(d) == ~location_constructs(d.location)

\* _create_order: weight and volume default to 0
create_order(d) == NewOrder(d.priority, 0, 0, 0)

\* One pass of the loop of process over a submission: validate, create, store,
\* notify; a validation failure or an exception goes to failed_orders.
\* st = [redis, messages, outcomes]; outcomes[i] tells what became of batch[i].
ingest_one(st, d, clock) ==
    LET errors == validate_order_data(d, clock)
        id == Cardinality(DOMAIN st.redis.orders_key) + 1
    IN IF errors # {}
       THEN [st EXCEPT !.outcomes = Append(@, [order_id |-> 0, errors |-> errors])]
       ELSE IF create_order_raises(d)
       THEN [st EXCEPT !.outcomes =
                Append(@, [order_id |-> 0, errors |-> {"validation error for Location"}])]
       ELSE [redis |-> add_order(st.redis, id, create_order(d)),
             messages |-> notify_new_order(st.messages, id),
             outcomes |-> Append(st.outcomes, [order_id |-> id, errors |-> {}])]

RECURSIVE ingest(_, _, _)
ingest(st, batch, clock) ==
    IF batch = <<>> THEN st
    ELSE ingest(ingest_one(st, Head(batch), clock), Tail(batch), clock)

\* OrderIngestionAgent.process({"orders": batch})
order_ingestion_batch(st, batch, clock) ==
    LET st0 == [redis |-> update_agent_state(st.redis, "order_ingestion_agent", "executing"),
                messages |-> st.messages, outcomes |-> <<>>]
        done == ingest(st0, batch, clock)
    IN [done EXCEPT !.redis = update_agent_state(@, "order_ingestion_agent", "monitoring")]

\* --------------------------------------------------- ExceptionHandlingAgent
base_severities(type) ==
    CASE type = "delivery_failure" -> "medium"
      [] type = "vehicle_breakdown" -> "high"
      [] type = "time_window_violation" -> "high"
      [] type = "customer_unavailable" -> "low"
      [] type = "address_invalid" -> "medium"
      [] type = "traffic_delay" -> "low"
      [] type = "weather_delay" -> "medium"
      [] type = "capacity_exceeded" -> "medium"
      [] OTHER -> "medium"

RaiseSeverity(severity, top) ==
    CASE severity = "low" -> "medium"
      [] severity = "medium" -> "high"
      [] severity = "high" /\ top -> "critical"
      [] OTHER -> severity

determine_severity(exception_data) ==
    LET s0 == base_severities(exception_data.type)
        s1 == IF exception_data.customer_priority = "high" THEN RaiseSeverity(s0, FALSE) ELSE s0
    IN IF exception_data.time_sensitive THEN RaiseSeverity(s1, TRUE) ELSE s1

HasRules(type) == type \in {"delivery_failure", "vehicle_breakdown", "time_window_violation",
                            "traffic_delay", "weather_delay"}

\* Rules in which every type waits the default time before it escalates.
auto_escalate_after_default(type) == 30

\* _setup_escalation_rules and rules.get("auto_escalate_after_minutes", 30)
auto_escalate_after_minutes(type) ==
    CASE type = "delivery_failure" -> 15
      [] type = "vehicle_breakdown" -> 5
      [] type = "time_window_violation" -> 0
      [] type = "traffic_delay" -> 30
      [] type = "weather_delay" -> 20
      [] OTHER -> 30

max_retry_attempts(type) ==
    CASE type = "delivery_failure" -> 3
      [] type = "vehicle_breakdown" -> 1
      [] type = "time_window_violation" -> 2
      [] type = "traffic_delay" -> 2
      [] type = "weather_delay" -> 1
      [] OTHER -> 3

escalation_path(type) ==
    CASE type = "delivery_failure" -> <<"supervisor_agent", "customer_service">>
      [] type = "vehicle_breakdown" -> <<"supervisor_agent", "fleet_management">>
      [] type = "time_window_violation" -> <<"supervisor_agent", "customer_service">>
      [] type = "traffic_delay" -> <<"route_planning_agent", "supervisor_agent">>
      [] type = "weather_delay" -> <<"route_planning_agent", "supervisor_agent">>
      [] OTHER -> <<"supervisor_agent">>

\* _determine_initial_response: strategies[0] whatever the severity
determine_initial_response(type) ==
    CASE type = "delivery_failure" -> "retry_delivery"
      [] type = "vehicle_breakdown" -> "dispatch_replacement_vehicle"
      [] type = "time_window_violation" -> "prioritize_order"
      [] type = "traffic_delay" -> "calculate_alternative_route"
      [] type = "weather_delay" -> "postpone_non_urgent_deliveries"
      [] OTHER -> "retry_delivery"

\* An escalation check that fires as soon as the waiting time is reached.
should_escalate_at_threshold(rec, clock) ==
    \/ rec.severity = "critical"
    \/ clock - rec.occurred_at >= auto_escalate_after_minutes(rec.type)
    \/ rec.retry_count >= max_retry_attempts(rec.type)

\* _should_escalate, the clock in minutes
should_escalate(rec, clock) ==
    \/ rec.severity = "critical"
    \/ auto_escalate_after_minutes(rec.type) = 0
    \/ clock - rec.occurred_at > auto_escalate_after_minutes(rec.type)
    \/ rec.retry_count >= max_retry_attempts(rec.type)

\* The recovery actions work on st = [redis, messages]; 0 stands for None.
retry_delivery(st, order_id, vehicle_id) ==
    IF order_id = 0 THEN st
    ELSE [redis |-> update_order(st.redis, order_id, [state |-> "en_route"]),
          messages |-> send_message(st.messages, "exception_handling_agent",
                                    "route_planning_agent", "retry_delivery",
                                    <<order_id, vehicle_id>>)]

reschedule_delivery(st, order_id) ==
    IF order_id = 0 THEN st
    ELSE [redis |-> update_order(st.redis, order_id, [state |-> "new"]),
          messages |-> send_message(st.messages, "exception_handling_agent",
                                    "vehicle_assignment_agent", "order_ready_for_assignment",
                                    <<order_id>>)]

reassign_vehicle(st, order_id) ==
    IF order_id = 0 THEN st
    ELSE [redis |-> update_order(st.redis, order_id, [state |-> "new"]),
          messages |-> send_message(st.messages, "exception_handling_agent",
                                    "vehicle_assignment_agent", "urgent_reassignment",
                                    <<order_id>>)]

\* What available_vehicles[0] can be: HKEYS gives the hash's fields in no order
\* Redis specifies, so any available vehicle; {0} when there is none.
ReplacementChoices(r, vehicle_id) ==
    LET r1 == update_vehicle(r, vehicle_id, [state |-> "maintenance"])
    IN IF get_available_vehicles(r1) = {} THEN {0} ELSE get_available_vehicles(r1)

\* A recovery that parks the broken vehicle but leaves its orders on it.
dispatch_without_transfer(st, vehicle_id, replacement) ==
    IF vehicle_id = 0 \/ vehicle_id \notin DOMAIN st.redis.vehicles_key THEN st
    ELSE [redis |-> update_vehicle(st.redis, vehicle_id, [state |-> "maintenance"]),
          messages |-> st.messages]

\* _dispatch_replacement_vehicle, replacement being available_vehicles[0]
dispatch_replacement_vehicle(st, vehicle_id, replacement) ==
    IF vehicle_id = 0 \/ vehicle_id \notin DOMAIN st.redis.vehicles_key THEN st
    ELSE LET vehicle == st.redis.vehicles_key[vehicle_id]
             r1 == update_vehicle(st.redis, vehicle_id, [state |-> "maintenance"])
         IN IF replacement # 0
            THEN LET r2 == update_vehicle(r1, replacement,
                               [assigned_orders |-> vehicle.assigned_orders,
                                state |-> "assigned"])
                     r3 == update_vehicle(r2, vehicle_id, [assigned_orders |-> <<>>])
                 IN [redis |-> r3,
                     messages |-> send_message(st.messages, "exception_handling_agent",
                                      "route_planning_agent", "emergency_reroute",
                                      <<replacement>>)]
            ELSE [redis |-> r1, messages |-> st.messages]

request_alternative_route(st, vehicle_id) ==
    [st EXCEPT !.messages = send_message(@, "exception_handling_agent", "route_planning_agent",
                                         "calculate_alternative_route", <<vehicle_id>>)]

execute_recovery_action(st, rec, action, replacement) ==
    CASE action = "retry_delivery" -> retry_delivery(st, rec.order_id, rec.vehicle_id)
      [] action = "reschedule_delivery" -> reschedule_delivery(st, rec.order_id)
      [] action = "reassign_vehicle" -> reassign_vehicle(st, rec.order_id)
      [] action = "dispatch_replacement_vehicle" ->
             dispatch_replacement_vehicle(st, rec.vehicle_id, replacement)
      [] action = "calculate_alternative_route" -> request_alternative_route(st, rec.vehicle_id)
      [] OTHER -> st

\* An escalation that always goes to the supervisor.
escalate_exception_to_supervisor(st, i) ==
    LET level == st.active[i].escalation_level + 1
    IN [messages |-> send_message(st.messages, "exception_handling_agent", "supervisor_agent",
                                  "exception_escalation", <<i, level>>),
        active |-> [st.active EXCEPT ![i].escalation_level = level]]

\* _escalate_exception on the i-th active record; st = [messages, active]
escalate_exception(st, i) ==
    LET rec == st.active[i]
        level == rec.escalation_level + 1
        path == escalation_path(rec.type)
        target == IF level <= Len(path) THEN path[level] ELSE "supervisor_agent"
    IN [messages |-> send_message(st.messages, "exception_handling_agent", target,
                                  "exception_escalation", <<i, level>>),
        active |-> [st.active EXCEPT ![i].escalation_level = level]]

ExceptionData(type, order_id, vehicle_id) ==
    [type |-> type, order_id |-> order_id, vehicle_id |-> vehicle_id,
     customer_priority |-> "normal", time_sensitive |-> FALSE]

\* _handle_exception on st = [redis, messages, agent]
handle_exception(st, exception_data, replacement, clock) ==
    LET rec == [type |-> exception_data.type,
                severity |-> determine_severity(exception_data),
                order_id |-> exception_data.order_id,
                vehicle_id |-> exception_data.vehicle_id,
                occurred_at |-> clock, status |-> "active",
                retry_count |-> 0, escalation_level |-> 0]
        active == Append(st.agent.active_exceptions, rec)
        done == execute_recovery_action([redis |-> st.redis, messages |-> st.messages], rec,
                                        determine_initial_response(rec.type), replacement)
        esc == IF should_escalate(rec, clock)
               THEN escalate_exception([messages |-> done.messages, active |-> active],
                                       Len(active))
               ELSE [messages |-> done.messages, active |-> active]
    IN [redis |-> done.redis, messages |-> esc.messages,
        agent |-> [st.agent EXCEPT !.active_exceptions = esc.active]]

RECURSIVE auto_escalations(_, _, _)
\* the loop of _general_exception_monitoring, from the i-th active record on
auto_escalations(st, i, clock) ==
    IF i > Len(st.active) THEN st
    ELSE auto_escalations(
             IF should_escalate(st.active[i], clock) /\ st.active[i].escalation_level = 0
             THEN escalate_exception(st, i) ELSE st,
             i + 1, clock)

\* exc_record.get("resolved_at", datetime.now())
ResolvedAt(rec, clock) == IF "resolved_at" \in DOMAIN rec THEN rec.resolved_at ELSE clock

\* A clean-up that archives by age alone, whatever the record's status.
cleanup_by_age(agent, clock) ==
    LET old(rec) == rec.occurred_at < clock - RetentionMinutes
    IN [agent EXCEPT
          !.active_exceptions = SelectSeq(@, LAMBDA rec : ~old(rec)),
          !.exception_history = @ \o SelectSeq(agent.active_exceptions, old)]

\* _cleanup_resolved_exceptions: resolved records older than the cut-off move
\* to the history, in the order of the active set.
cleanup_resolved_exceptions(agent, clock) ==
    LET old(rec) == /\ rec.status = "resolved"
                    /\ ResolvedAt(rec, clock) < clock - RetentionMinutes
    IN [agent EXCEPT
          !.active_exceptions = SelectSeq(@, LAMBDA rec : ~old(rec)),
          !.exception_history = @ \o SelectSeq(agent.active_exceptions, old)]

\* _general_exception_monitoring
general_exception_monitoring(st, clock) ==
    LET esc == auto_escalations([messages |-> st.messages,
                                 active |-> st.agent.active_exceptions], 1, clock)
    IN [redis |-> st.redis, messages |-> esc.messages,
        agent |-> cleanup_resolved_exceptions(
                      [st.agent EXCEPT !.active_exceptions = esc.active], clock)]

\* _activate_emergency_protocols: the flag, and a message to three agents
activate_emergency_protocols(st) ==
    LET m1 == send_message(st.messages, "exception_handling_agent", "supervisor_agent",
                           "emergency_protocols_activated", <<>>)
        m2 == send_message(m1, "exception_handling_agent", "vehicle_assignment_agent",
                           "emergency_protocols_activated", <<>>)
        m3 == send_message(m2, "exception_handling_agent", "route_planning_agent",
                           "emergency_protocols_activated", <<>>)
    IN [st EXCEPT !.messages = m3, !.agent.emergency_protocols_active = TRUE]

\* ExceptionHandlingAgent.process(input_data) on st = [redis, messages, agent]
exception_handling_process(st, action, exception_data, replacement, clock) ==
    LET st0 == [st EXCEPT !.redis = update_agent_state(@, "exception_handling_agent",
                                                       "executing")]
        done == CASE action = "handle_exception" ->
                        handle_exception(st0, exception_data, replacement, clock)
                  [] action = "emergency_activation" -> activate_emergency_protocols(st0)
                  [] action \in {"escalate_exception", "recover_from_failure",
                                 "review_exceptions"} -> st0
                  [] OTHER -> general_exception_monitoring(st0, clock)
    IN [done EXCEPT !.redis = update_agent_state(@, "exception_handling_agent", "monitoring")]

\* -------------------------------------------------------- AgentOrchestrator
\* AgentMessage (models.py, the definition in force) has sender_agent and
\* recipient_agent; reading message.receiver raises AttributeError.
HasAttr(message, field) == field \in DOMAIN message

\* receive_message of the base class: the message joins the recipient's list
receive_message(msgs, agent, message) == [msgs EXCEPT ![agent] = @ \cup {message}]

RECURSIVE process_message_queue(_)
\* _process_message_queue on st = [queue, messages, delivered, error]
process_message_queue(st) ==
    IF st.queue = <<>> THEN st
    ELSE LET message == Head(st.queue)
             popped == [st EXCEPT !.queue = Tail(@)]
         IN IF ~HasAttr(message, "receiver")
            THEN [popped EXCEPT !.error = TRUE]
            ELSE IF message.receiver \in AgentNames
            THEN process_message_queue(
                     [popped EXCEPT !.messages = receive_message(@, message.receiver, message),
                                    !.delivered = Append(@, message)])
            ELSE process_message_queue(popped)

NoDecisions == [new_orders |-> FALSE, needs_assignment |-> FALSE,
                needs_routing |-> FALSE, has_exceptions |-> FALSE]

OrdersIn(system_state, state) ==
    {o \in DOMAIN system_state.orders : system_state.orders[o].state = state}

\* _make_decisions: the decisions and the two sets it updates
\* giving up as soon as no vehicle is free, without counting attempts
gives_up_at_once(available_vehicles, attempts) == available_vehicles = {}

\* "if len(available_vehicles) == 0 and self._no_vehicle_attempts >= 3"
gives_up(available_vehicles, attempts) ==
    available_vehicles = {} /\ attempts >= NoVehicleLimit

make_decisions(system_state, current_step, processed, failed, attempts) ==
    IF current_step > SoftThreshold
    THEN [decisions |-> NoDecisions, processed |-> processed, failed |-> failed]
    ELSE LET new_orders == OrdersIn(system_state, "new") \ processed
             d_new == new_orders # {}
             ready_orders == (OrdersIn(system_state, "new") \cap processed) \ failed
             available_vehicles == {v \in DOMAIN system_state.vehicles :
                                      system_state.vehicles[v].state \in {"available", "idle"}}
             give_up == ~d_new /\ gives_up(available_vehicles, attempts)
             d_assign == ~d_new /\ ~give_up /\ ready_orders # {}
         IN [decisions |->
                [new_orders |-> d_new,
                 needs_assignment |-> d_assign,
                 needs_routing |-> OrdersIn(system_state, "assigned") # {}
                                      /\ ~d_new /\ ~d_assign,
                 has_exceptions |-> OrdersIn(system_state, "failed") # {}],
             processed |-> processed \cup new_orders,
             failed |-> IF give_up THEN failed \cup ready_orders ELSE failed]

\* _route_to_agents
\* _route_to_agents with the exception handler tried first
route_to_agents_exceptions_first(state) ==
    IF state.force_end THEN "END"
    ELSE IF state.orchestrator_decisions.has_exceptions THEN "exception_handling_agent"
    ELSE IF state.orchestrator_decisions.new_orders THEN "order_ingestion_agent"
    ELSE IF state.orchestrator_decisions.needs_assignment THEN "vehicle_assignment_agent"
    ELSE IF state.orchestrator_decisions.needs_routing THEN "route_planning_agent"
    ELSE "END"

route_to_agents(state) ==
    IF state.force_end THEN "END"
    ELSE IF state.orchestrator_decisions.new_orders THEN "order_ingestion_agent"
    ELSE IF state.orchestrator_decisions.needs_assignment THEN "vehicle_assignment_agent"
    ELSE IF state.orchestrator_decisions.needs_routing THEN "route_planning_agent"
    ELSE IF state.orchestrator_decisions.has_exceptions THEN "exception_handling_agent"
    ELSE "END"

\* The workflow is StateGraph(dict): the graph's state is one value, and the dict
\* a node returns IS the next state. _orchestrate returns the dict it was given;
\* an agent's process returns a new result dict, which holds none of
\* step_count, force_end, action: state.get(...) then gives the defaults.
InitialInput(action) ==
    [step_count |-> 0, force_end |-> FALSE, action |-> action, message |-> "none",
     orchestrator_decisions |-> NoDecisions]

NodeOutput(result) ==
    [step_count |-> 0, force_end |-> FALSE, action |-> "handle_exception",
     message |-> result.message, orchestrator_decisions |-> NoDecisions]

\* ------------------------------------------------------------------ state
\* After LogisticsSystem() and start_system(): every agent has registered itself
\* as PLANNING, the system is running.
InitAgentStates == [a \in AgentNames |-> "planning"]

InitRedis ==
    [orders_key |-> EmptyMap, vehicles_key |-> EmptyMap, routes_key |-> {},
     agents_key |-> InitAgentStates,
     state_key |-> [SystemState EXCEPT !.agent_states = InitAgentStates]]

\* No thread is inside a StateManager call.
NoThreads ==
    [wpc |-> "done", xpc |-> "done", order |-> NewOrder(1, 10, 3, 0),
     vehicle |-> [state |-> "idle", assigned_orders |-> <<>>, max_orders |-> 1,
                  current_location |-> 0, capacity_weight |-> 50, capacity_volume |-> 30],
     w_state |-> InitRedis.state_key, x_order |-> NewOrder(1, 10, 3, 0),
     x_state |-> InitRedis.state_key, observed |-> InitRedis.state_key,
     late |-> {}, pending |-> <<>>]

\* RoutePlanningAgent with no planning call under way
NoRouting == [pc |-> "none"]

NoOp == [name |-> "none", pre |-> InitRedis, arg |-> 0, result |-> "none"]

Op(name, pre, arg, result) == [name |-> name, pre |-> pre, arg |-> arg, result |-> result]

Init ==
    /\ redis = InitRedis
    /\ message_queue = <<>>
    /\ processed_orders = {}
    /\ failed_assignments = {}
    /\ no_vehicle_attempts = 0
    /\ current_step_count = 0
    /\ pc = "idle"
    /\ wstate = InitialInput("none")
    /\ supersteps = 0
    /\ outcome = "none"
    /\ dispatches = 0
    /\ runs = 0
    /\ messages = [a \in AgentNames |-> {}]
    /\ calculated_routes = {}
    /\ exception_agent = [active_exceptions |-> <<>>, exception_history |-> <<>>,
                          emergency_protocols_active |-> FALSE]
    /\ now = 0
    /\ reports = 0
    /\ conc = NoThreads
    /\ is_running = TRUE
    /\ routing = NoRouting
    /\ last_op = NoOp

Orders == redis.state_key.orders
Vehicles == redis.state_key.vehicles

Vehicle(max_orders, location, capacity_weight, capacity_volume) ==
    [state |-> "idle", assigned_orders |-> <<>>, max_orders |-> max_orders,
     current_location |-> location, capacity_weight |-> capacity_weight,
     capacity_volume |-> capacity_volume]

\* ------------------------------------------------- the system's entry points
\* LogisticsSystem._initialize_sample_data: the fleet is registered at start-up
\* through StateManager.add_vehicle
RegisterVehicle ==
    /\ pc = "idle"
    /\ Cardinality(DOMAIN redis.vehicles_key) < MaxVehicles
    /\ \E m \in VehicleMaxOrders, p \in Places,
          cw \in VehicleCapacityWeights, cv \in VehicleCapacityVolumes :
          LET id == Cardinality(DOMAIN redis.vehicles_key) + 1
          IN /\ redis' = add_vehicle(redis, id, Vehicle(m, p, cw, cv))
             /\ last_op' = Op("add_vehicle", redis, id, "ok")
    /\ UNCHANGED <<message_queue, orchVars, graphVars, messages, calculated_routes,
                   exception_agent, now, reports, conc, is_running, routing>>

\* the fleet is registered before the first run
AddVehicle ==
    /\ runs = 0
    /\ RegisterVehicle

\* LogisticsSystem.process_new_order, up to its call of run_workflow
SubmitOrder ==
    /\ pc = "idle"
    /\ Cardinality(DOMAIN redis.orders_key) < MaxOrders
    /\ \E pr \in Priorities, w \in OrderWeights, vol \in OrderVolumes, p \in Places :
          LET id == Cardinality(DOMAIN redis.orders_key) + 1
              done == order_ingestion_process([redis |-> redis, messages |-> messages],
                                              id, NewOrder(pr, w, vol, p))
          IN /\ redis' = done.redis
             /\ messages' = done.messages
             /\ last_op' = Op("submit_order", redis, id, "ok")
    /\ UNCHANGED <<message_queue, orchVars, graphVars, calculated_routes,
                   exception_agent, now, reports, conc, is_running, routing>>

\* AgentOrchestrator.run_workflow, up to workflow.invoke: called by
\* run_workflow_cycle with {"action": "process_system"} and by process_new_order
\* with {"trigger": "new_order"}.
RunWorkflow ==
    /\ pc = "idle"
    /\ runs < MaxRuns
    /\ \E action \in {"process_system", "handle_exception"} :
          wstate' = InitialInput(action)
    /\ current_step_count' = 0
    /\ no_vehicle_attempts' = 0
    /\ pc' = "orchestrator"
    /\ supersteps' = 0
    /\ dispatches' = 0
    /\ outcome' = "running"
    /\ runs' = runs + 1
    /\ last_op' = Op("run_workflow", redis, 0, "started")
    /\ UNCHANGED <<redis, message_queue, processed_orders, failed_assignments, messages,
                   calculated_routes, exception_agent, now, reports, conc, is_running, routing>>

\* _orchestrate without its safety check
exceeds_ceiling_never(step_count) == FALSE

\* "if step_count > 20"
exceeds_ceiling(step_count) == step_count > STEP_CEILING

\* One superstep of the graph at the orchestrator node: _orchestrate and the
\* conditional edge _route_to_agents. The graph's dict does not outlive invoke.
Orchestrate ==
    /\ pc = "orchestrator"
    /\ supersteps < RecursionLimit
    /\ supersteps' = supersteps + 1
    /\ LET step_count == wstate.step_count + 1 IN
       /\ current_step_count' = step_count
       /\ IF exceeds_ceiling(step_count)
          THEN /\ wstate' = InitialInput("none")
               /\ pc' = "idle"
               /\ outcome' = "force_end"
               /\ last_op' = Op("orchestrate", redis, message_queue, "END")
               /\ UNCHANGED <<redis, message_queue, processed_orders, failed_assignments,
                              messages>>
          ELSE LET r1 == update_agent_state(redis, "orchestrator", "executing")
                   drain == process_message_queue([queue |-> message_queue,
                                messages |-> messages, delivered |-> <<>>, error |-> FALSE])
                   made == make_decisions(get_system_state(r1), step_count, processed_orders,
                                          failed_assignments, no_vehicle_attempts)
                   state == [wstate EXCEPT !.step_count = step_count,
                                           !.orchestrator_decisions = made.decisions]
                   next == route_to_agents(state)
               IN /\ redis' = r1
                  /\ message_queue' = drain.queue
                  /\ messages' = drain.messages
                  /\ IF drain.error
                     THEN \* the AttributeError leaves invoke; run_workflow returns {"error"}
                          /\ pc' = "idle"
                          /\ outcome' = "error"
                          /\ wstate' = InitialInput("none")
                          /\ last_op' = Op("orchestrate", redis, message_queue, "error")
                          /\ UNCHANGED <<processed_orders, failed_assignments>>
                     ELSE /\ processed_orders' = made.processed
                          /\ failed_assignments' = made.failed
                          /\ wstate' = IF next = "END" THEN InitialInput("none") ELSE state
                          /\ pc' = IF next = "END" THEN "idle" ELSE next
                          /\ outcome' = IF next = "END"
                                        THEN (IF step_count > SoftThreshold
                                              THEN "threshold" ELSE "no_pending_actions")
                                        ELSE outcome
                          /\ last_op' = Op("orchestrate", redis, message_queue, next)
    /\ UNCHANGED <<no_vehicle_attempts, dispatches, runs, calculated_routes,
                   exception_agent, now, reports, conc, is_running, routing>>

\* invoke raises GraphRecursionError once recursion_limit supersteps have run
\* without reaching END; run_workflow catches it and returns the "recursion
\* limit" result.
RecursionLimitReached ==
    /\ pc = "orchestrator"
    /\ supersteps >= RecursionLimit
    /\ pc' = "idle"
    /\ outcome' = "recursion_limit"
    /\ last_op' = Op("invoke", redis, supersteps, "GraphRecursionError")
    /\ wstate' = InitialInput("none")
    /\ UNCHANGED <<redis, message_queue, orchVars, supersteps, dispatches, runs,
                   messages, calculated_routes, exception_agent, now, reports, conc, is_running, routing>>

AfterWorker(result) ==
    /\ wstate' = NodeOutput(result)
    /\ pc' = "orchestrator"
    /\ supersteps' = supersteps + 1
    /\ dispatches' = dispatches + 1
    /\ UNCHANGED <<outcome, runs>>

OrderIngestionNode ==
    /\ pc = "order_ingestion_agent"
    /\ redis' = order_ingestion_node(redis)
    /\ AfterWorker([message |-> "processed_orders_0"])
    /\ last_op' = Op("order_ingestion_agent", redis, 0, "processed_orders_0")
    /\ UNCHANGED <<message_queue, orchVars, messages, calculated_routes, exception_agent, now, reports,
                   conc, is_running, routing>>

VehicleAssignmentNode ==
    /\ pc = "vehicle_assignment_agent"
    /\ LET done == vehicle_assignment_process([redis |-> redis, messages |-> messages])
       IN /\ redis' = done.redis
          /\ messages' = done.messages
          /\ AfterWorker(done.result)
          /\ last_op' = Op("vehicle_assignment_agent", redis, done.result.assignments,
                           done.result.message)
    /\ UNCHANGED <<message_queue, orchVars, calculated_routes, exception_agent, now, reports,
                   conc, is_running, routing>>

RoutePlanningNode ==
    /\ pc = "route_planning_agent"
    /\ LET done == route_planning_process([redis |-> redis, messages |-> messages,
                                           calculated_routes |-> calculated_routes])
       IN /\ redis' = done.redis
          /\ messages' = done.messages
          /\ calculated_routes' = done.calculated_routes
          /\ AfterWorker(done.result)
          /\ last_op' = Op("route_planning_agent", redis, 0, done.result.message)
    /\ UNCHANGED <<message_queue, orchVars, exception_agent, now, reports, conc, is_running, routing>>

\* The graph hands the agent its state as input_data: no "exception" key, and
\* an "action" only while the state is still the caller's initial input.
ExceptionHandlingNode ==
    /\ pc = "exception_handling_agent"
    /\ LET done == exception_handling_process(
                       [redis |-> redis, messages |-> messages, agent |-> exception_agent],
                       wstate.action, ExceptionData("delivery_failure", 0, 0), 0, now)
       IN /\ redis' = done.redis
          /\ messages' = done.messages
          /\ exception_agent' = done.agent
          /\ AfterWorker([message |-> "exception"])
          /\ last_op' = Op("exception_handling_agent", redis, 0, wstate.action)
    /\ UNCHANGED <<message_queue, orchVars, calculated_routes, now, reports, conc, is_running, routing>>

\* A failure report: ExceptionHandlingAgent.process({"action": "handle_exception",
\* "exception": {"type": "vehicle_breakdown", "vehicle_id": v}})
ReportBreakdown ==
    /\ pc = "idle"
    /\ reports < MaxReports
    /\ reports' = reports + 1
    /\ \E v \in DOMAIN redis.vehicles_key :
       \E replacement \in ReplacementChoices(redis, v) :
          LET done == exception_handling_process(
                          [redis |-> redis, messages |-> messages, agent |-> exception_agent],
                          "handle_exception", ExceptionData("vehicle_breakdown", 0, v),
                          replacement, now)
          IN /\ redis.vehicles_key[v].state # "maintenance"
             /\ redis' = done.redis
             /\ messages' = done.messages
             /\ exception_agent' = done.agent
             /\ last_op' = Op("vehicle_breakdown", redis, <<v, replacement>>, "handled")
    /\ UNCHANGED <<message_queue, orchVars, graphVars, calculated_routes, now, conc, is_running, routing>>

\* LogisticsSystem.simulate_delivery_failure(order_id), reported for an order
\* that is on a vehicle
ReportDeliveryFailure ==
    /\ pc = "idle"
    /\ reports < MaxReports
    /\ reports' = reports + 1
    /\ \E o \in DOMAIN redis.orders_key :
          LET done == exception_handling_process(
                          [redis |-> redis, messages |-> messages, agent |-> exception_agent],
                          "handle_exception", ExceptionData("delivery_failure", o, 0), 0, now)
          IN /\ redis.orders_key[o].state \in {"assigned", "en_route"}
             /\ redis' = done.redis
             /\ messages' = done.messages
             /\ exception_agent' = done.agent
             /\ last_op' = Op("delivery_failure", redis, o, "handled")
    /\ UNCHANGED <<message_queue, orchVars, graphVars, calculated_routes, now, conc, is_running, routing>>

\* A status report from the tracking side: StateManager.update_order(o, {"state": FAILED})
ReportOrderFailed ==
    /\ pc = "idle"
    /\ reports < MaxReports
    /\ reports' = reports + 1
    /\ \E o \in DOMAIN redis.orders_key :
          /\ redis.orders_key[o].state \in {"assigned", "en_route"}
          /\ redis' = update_order(redis, o, [state |-> "failed"])
          /\ last_op' = Op("order_failed", redis, o, "ok")
    /\ UNCHANGED <<message_queue, orchVars, graphVars, messages, calculated_routes,
                   exception_agent, now, conc, is_running, routing>>

Next ==
    \/ AddVehicle
    \/ SubmitOrder
    \/ RunWorkflow
    \/ Orchestrate
    \/ RecursionLimitReached
    \/ OrderIngestionNode
    \/ VehicleAssignmentNode
    \/ RoutePlanningNode
    \/ ExceptionHandlingNode
    \/ ReportBreakdown
    \/ ReportDeliveryFailure
    \/ ReportOrderFailed

Spec == Init /\ [][Next]_vars

\* ------------------------------------------ the message queue on its own
\* AgentOrchestrator.route_message: the one place that appends to message_queue
RouteMessage ==
    /\ pc = "idle"
    /\ Len(message_queue) < MaxQueue
    /\ \E sender \in {"vehicle_assignment_agent", "exception_handling_agent"},
          receiver \in {"route_planning_agent", "supervisor_agent"} :
          LET message == AgentMessage(sender, receiver, "system_alert", <<Len(message_queue)>>)
          IN /\ message_queue' = Append(message_queue, message)
             /\ last_op' = Op("route_message", redis, <<message>>, "ok")
    /\ UNCHANGED <<redis, orchVars, graphVars, messages, calculated_routes, exception_agent,
                   now, reports, conc, is_running, routing>>

NextMsg ==
    \/ RouteMessage
    \/ SubmitOrder
    \/ RunWorkflow
    \/ Orchestrate
    \/ OrderIngestionNode
    \/ VehicleAssignmentNode
    \/ RecursionLimitReached

SpecMsg == Init /\ [][NextMsg]_vars

\* ------------------------------- StateManager calls of two threads at once
\* One thread is VehicleAssignmentAgent._execute_assignments applying the pairing
\* of order 1 with vehicle 1, one is an external StateManager.add_order of order
\* 2, and a reader calls get_system_state. Each step is one Redis command.
InitConc ==
    /\ \E m \in VehicleMaxOrders, p \in Places, cw \in VehicleCapacityWeights,
          cv \in VehicleCapacityVolumes, pr \in Priorities, w \in OrderWeights,
          vol \in OrderVolumes, pl \in Places :
          redis = add_order(add_vehicle(InitRedis, 1, Vehicle(m, p, cw, cv)),
                            1, NewOrder(pr, w, vol, pl))
    /\ conc = [NoThreads EXCEPT !.wpc = "update_order", !.xpc = "add_order",
                                !.observed = redis.state_key]
    /\ is_running = TRUE
    /\ routing = NoRouting
    /\ message_queue = <<>>
    /\ processed_orders = {1}
    /\ failed_assignments = {}
    /\ no_vehicle_attempts = 0
    /\ current_step_count = 1
    /\ pc = "vehicle_assignment_agent"
    /\ wstate = InitialInput("none")
    /\ supersteps = 3
    /\ outcome = "running"
    /\ dispatches = 1
    /\ runs = 1
    /\ messages = [a \in AgentNames |-> {}]
    /\ calculated_routes = {}
    /\ exception_agent = [active_exceptions |-> <<>>, exception_history |-> <<>>,
                          emergency_protocols_active |-> FALSE]
    /\ now = 0
    /\ reports = 0
    /\ last_op = NoOp

restVars == <<message_queue, orchVars, graphVars, messages, calculated_routes,
              exception_agent, now, reports, is_running, routing,
              last_op>>

\* update_order(1, {"state": ASSIGNED}): HGET orders_key, apply, HSET orders_key
update_order_hset ==
    /\ conc.wpc = "update_order"
    /\ LET order == ApplyUpdates(redis.orders_key[1], [state |-> "assigned"])
       IN /\ redis' = [redis EXCEPT !.orders_key = Put(@, 1, order)]
          /\ conc' = [conc EXCEPT !.wpc = "update_order_get_state", !.order = order]
    /\ UNCHANGED restVars

\* update_order: state = self.get_system_state()
update_order_get_state ==
    /\ conc.wpc = "update_order_get_state"
    /\ conc' = [conc EXCEPT !.wpc = "update_order_save_state",
                            !.w_state = get_system_state(redis)]
    /\ UNCHANGED <<redis, restVars>>

\* update_order: state.orders[order_id] = order; self.save_system_state(state)
update_order_save_state ==
    /\ conc.wpc = "update_order_save_state"
    /\ redis' = [redis EXCEPT !.state_key =
                    [conc.w_state EXCEPT !.orders = Put(@, 1, conc.order)]]
    /\ conc' = [conc EXCEPT !.wpc = "get_vehicle"]
    /\ UNCHANGED restVars

\* _execute_assignments: vehicle = self.state_manager.get_vehicle(vehicle_id)
get_vehicle ==
    /\ conc.wpc = "get_vehicle"
    /\ conc' = [conc EXCEPT !.wpc = "update_vehicle", !.vehicle = redis.vehicles_key[1]]
    /\ UNCHANGED <<redis, restVars>>

\* update_vehicle(1, {"assigned_orders": updated_orders, "state": ASSIGNED}):
\* HGET vehicles_key, apply, HSET vehicles_key
update_vehicle_hset ==
    /\ conc.wpc = "update_vehicle"
    /\ LET vehicle == ApplyUpdates(redis.vehicles_key[1],
                          [assigned_orders |-> Append(conc.vehicle.assigned_orders, 1),
                           state |-> "assigned"])
       IN /\ redis' = [redis EXCEPT !.vehicles_key = Put(@, 1, vehicle)]
          /\ conc' = [conc EXCEPT !.wpc = "update_vehicle_get_state", !.vehicle = vehicle]
    /\ UNCHANGED restVars

\* update_vehicle: state = self.get_system_state()
update_vehicle_get_state ==
    /\ conc.wpc = "update_vehicle_get_state"
    /\ conc' = [conc EXCEPT !.wpc = "update_vehicle_save_state",
                            !.w_state = get_system_state(redis)]
    /\ UNCHANGED <<redis, restVars>>

\* update_vehicle: state.vehicles[vehicle_id] = vehicle; self.save_system_state(state)
update_vehicle_save_state ==
    /\ conc.wpc = "update_vehicle_save_state"
    /\ redis' = [redis EXCEPT !.state_key =
                    [conc.w_state EXCEPT !.vehicles = Put(@, 1, conc.vehicle)]]
    /\ conc' = [conc EXCEPT !.wpc = "done"]
    /\ UNCHANGED restVars

\* add_order of the external caller: HSET orders_key
add_order_hset ==
    /\ conc.xpc = "add_order"
    /\ \E pr \in Priorities, w \in OrderWeights, vol \in OrderVolumes, pl \in Places :
          LET order == NewOrder(pr, w, vol, pl)
          IN /\ redis' = [redis EXCEPT !.orders_key = Put(@, 2, order)]
             /\ conc' = [conc EXCEPT !.xpc = "add_order_get_state", !.x_order = order]
    /\ UNCHANGED restVars

\* add_order: state = self.get_system_state()
add_order_get_state ==
    /\ conc.xpc = "add_order_get_state"
    /\ conc' = [conc EXCEPT !.xpc = "add_order_save_state",
                            !.x_state = get_system_state(redis)]
    /\ UNCHANGED <<redis, restVars>>

\* add_order: state.orders[order.id] = order; self.save_system_state(state)
add_order_save_state ==
    /\ conc.xpc = "add_order_save_state"
    /\ redis' = [redis EXCEPT !.state_key =
                    [conc.x_state EXCEPT !.orders = Put(@, 2, conc.x_order)]]
    /\ conc' = [conc EXCEPT !.xpc = "done"]
    /\ UNCHANGED restVars

\* A reader's get_system_state, at any moment
ReadSystemState ==
    /\ conc.observed # get_system_state(redis)
    /\ conc' = [conc EXCEPT !.observed = get_system_state(redis)]
    /\ UNCHANGED <<redis, restVars>>

NextConc ==
    \/ update_order_hset
    \/ update_order_get_state
    \/ update_order_save_state
    \/ get_vehicle
    \/ update_vehicle_hset
    \/ update_vehicle_get_state
    \/ update_vehicle_save_state
    \/ add_order_hset
    \/ add_order_get_state
    \/ add_order_save_state
    \/ ReadSystemState

SpecConc == InitConc /\ [][NextConc]_vars

\* ------------------------------- route_message while a drain is under way
\* _orchestrate up to the first "while self.message_queue" test of
\* _process_message_queue, the queue holding something: the drain is under way.
OrchestrateEnterDrain ==
    /\ pc = "orchestrator"
    /\ supersteps < RecursionLimit
    /\ wstate.step_count + 1 <= STEP_CEILING
    /\ message_queue # <<>>
    /\ current_step_count' = wstate.step_count + 1
    /\ redis' = update_agent_state(redis, "orchestrator", "executing")
    /\ pc' = "draining"
    /\ last_op' = Op("enter_drain", redis, message_queue, "draining")
    /\ UNCHANGED <<message_queue, processed_orders, failed_assignments, no_vehicle_attempts,
                   wstate, supersteps, outcome, dispatches, runs, messages,
                   calculated_routes, exception_agent, now, reports, conc, is_running, routing>>

LateRef == MaxQueue

\* route_message called by another thread between the loop's test and its pop
RouteMessageDuringDrain ==
    /\ pc = "draining"
    /\ \A i \in 1..Len(message_queue) : message_queue[i].ref # <<LateRef + runs>>
    /\ \E sender \in {"vehicle_assignment_agent", "exception_handling_agent"},
          receiver \in {"route_planning_agent", "supervisor_agent"} :
          LET message == AgentMessage(sender, receiver, "system_alert", <<LateRef + runs>>)
          IN /\ message_queue' = Append(message_queue, message)
             /\ conc' = [conc EXCEPT !.late = @ \cup {message}]
             /\ last_op' = Op("route_message", redis, <<message>>, "during_drain")
    /\ UNCHANGED <<redis, orchVars, graphVars, messages, calculated_routes, exception_agent,
                   now, reports, is_running, routing>>

\* The rest of _orchestrate from the loop's pop(0) on: the loop works on the
\* live queue, then _make_decisions and the conditional edge.
DrainPop ==
    /\ pc = "draining"
    /\ supersteps' = supersteps + 1
    /\ LET step_count == current_step_count
           drain == process_message_queue([queue |-> message_queue,
                        messages |-> messages, delivered |-> <<>>, error |-> FALSE])
           made == make_decisions(get_system_state(redis), step_count, processed_orders,
                                  failed_assignments, no_vehicle_attempts)
           state == [wstate EXCEPT !.step_count = step_count,
                                   !.orchestrator_decisions = made.decisions]
           next == route_to_agents(state)
       IN /\ message_queue' = drain.queue
          /\ messages' = drain.messages
          /\ IF drain.error
             THEN /\ pc' = "idle"
                  /\ outcome' = "error"
                  /\ wstate' = InitialInput("none")
                  /\ last_op' = Op("drain", redis, message_queue, "error")
                  /\ UNCHANGED <<processed_orders, failed_assignments>>
             ELSE /\ processed_orders' = made.processed
                  /\ failed_assignments' = made.failed
                  /\ wstate' = IF next = "END" THEN InitialInput("none") ELSE state
                  /\ pc' = IF next = "END" THEN "idle" ELSE next
                  /\ outcome' = IF next = "END" THEN "no_pending_actions" ELSE outcome
                  /\ last_op' = Op("drain", redis, message_queue, next)
    /\ UNCHANGED <<redis, no_vehicle_attempts, current_step_count, dispatches, runs,
                   calculated_routes, exception_agent, now, reports, conc, is_running, routing>>

NextDrain ==
    \/ RouteMessage
    \/ RunWorkflow
    \/ Orchestrate
    \/ OrchestrateEnterDrain
    \/ RouteMessageDuringDrain
    \/ DrainPop

SpecDrain == Init /\ [][NextDrain]_vars

\* --------------------------------------- the exception handler over time
TickSteps == {700, RetentionMinutes + 1}

RECURSIVE Fleet(_, _, _)
\* n vehicles registered at start-up, alternating between the two places
Fleet(r, n, max_orders) ==
    IF n = 0 THEN r
    ELSE add_vehicle(Fleet(r, n - 1, max_orders), n,
                     Vehicle(max_orders, IF n % 2 = 1 THEN 0 ELSE 10, 50, 30))

\* The store and the agents' lists as start-up, one submitted order and, when
\* `dispatched`, the assignment and route planning steps of a run leave them.
AfterDispatch(n, max_orders, priority, pickup, dispatched) ==
    LET st1 == order_ingestion_process(
                   [redis |-> Fleet(InitRedis, n, max_orders),
                    messages |-> [a \in AgentNames |-> {}]],
                   1, NewOrder(priority, 10, 3, pickup))
        st2 == vehicle_assignment_process(st1)
        st3 == route_planning_process([redis |-> st2.redis, messages |-> st2.messages,
                                       calculated_routes |-> {}])
    IN IF dispatched THEN st3
       ELSE [redis |-> st1.redis, messages |-> st1.messages, calculated_routes |-> {}]

InitExc ==
    /\ \E n \in 1..MaxVehicles, m \in VehicleMaxOrders, pr \in Priorities, pl \in Places,
          dispatched \in BOOLEAN :
          LET st == AfterDispatch(n, m, pr, pl, dispatched)
          IN /\ redis = st.redis
             /\ messages = st.messages
             /\ calculated_routes = st.calculated_routes
             /\ processed_orders = IF dispatched THEN {1} ELSE {}
             /\ runs = IF dispatched THEN 1 ELSE 0
             /\ outcome = IF dispatched THEN "recursion_limit" ELSE "none"
             /\ supersteps = IF dispatched THEN RecursionLimit ELSE 0
             /\ dispatches = IF dispatched THEN RecursionLimit \div 2 ELSE 0
             /\ current_step_count = IF dispatched THEN 1 ELSE 0
    /\ message_queue = <<>>
    /\ failed_assignments = {}
    /\ no_vehicle_attempts = 0
    /\ pc = "idle"
    /\ wstate = InitialInput("none")
    /\ exception_agent = [active_exceptions |-> <<>>, exception_history |-> <<>>,
                          emergency_protocols_active |-> FALSE]
    /\ now = 0
    /\ reports = 0
    /\ conc = NoThreads
    /\ is_running = TRUE
    /\ routing = NoRouting
    /\ last_op = NoOp

\* Time passes.
Tick ==
    /\ pc = "idle"
    /\ \E d \in TickSteps :
          /\ now + d <= MaxClock
          /\ now' = now + d
    /\ last_op' = Op("tick", redis, now, "ok")
    /\ UNCHANGED <<redis, message_queue, orchVars, graphVars, messages, calculated_routes,
                   exception_agent, reports, conc, is_running, routing>>

\* ExceptionHandlingAgent.process with an action it has no branch for (the
\* {"action": "process_system"} of run_workflow_cycle): general monitoring.
MonitorExceptions ==
    /\ pc = "idle"
    /\ LET done == exception_handling_process(
                       [redis |-> redis, messages |-> messages, agent |-> exception_agent],
                       "process_system", ExceptionData("delivery_failure", 0, 0), 0, now)
       IN /\ redis' = done.redis
          /\ messages' = done.messages
          /\ exception_agent' = done.agent
          /\ last_op' = Op("exception_monitoring", redis, now, "ok")
    /\ UNCHANGED <<message_queue, orchVars, graphVars, calculated_routes, now, reports,
                   conc, is_running, routing>>

\* _activate_emergency_protocols: the actions it lists for the agents
emergency_actions(critical_conflicts) ==
    <<"temporarily_stop_new_orders", "prioritize_critical_orders">>
        \o (IF critical_conflicts > BackupFleetThreshold
            THEN <<"activate_backup_fleet">> ELSE <<>>)

\* ExceptionHandlingAgent.process({"action": "emergency_activation",
\* "critical_conflicts": n}), the request of
\* LogisticsSystem.trigger_emergency_protocols and of _handle_message for an
\* "emergency_activation" message
EmergencyActivation ==
    /\ pc = "idle"
    /\ \E critical_conflicts \in 0..MaxConflicts :
          LET done == exception_handling_process(
                          [redis |-> redis, messages |-> messages, agent |-> exception_agent],
                          "emergency_activation", ExceptionData("delivery_failure", 0, 0),
                          0, now)
          IN /\ redis' = done.redis
             /\ messages' = done.messages
             /\ exception_agent' = done.agent
             /\ last_op' = Op("emergency_activation", redis, critical_conflicts,
                              emergency_actions(critical_conflicts))
    /\ UNCHANGED <<message_queue, orchVars, graphVars, calculated_routes, now, reports,
                   conc, is_running, routing>>

NextExc ==
    \/ ReportBreakdown
    \/ EmergencyActivation
    \/ ReportDeliveryFailure
    \/ ReportOrderFailed
    \/ MonitorExceptions
    \/ Tick

SpecExc == InitExc /\ [][NextExc]_vars

\* ------------------------------------------------ batches at the intake
SubmissionLocations == {{"latitude", "longitude"}, {"address", "latitude", "longitude"}}

SubmissionPriorities == {1, 6}

\* no window, a start alone an hour ago, and a start with an end: an hour ago
\* or an hour ahead
TimeWindows == {TimeWindow(FALSE, 0, FALSE, 0), TimeWindow(TRUE, -60, FALSE, 0),
                TimeWindow(TRUE, -60, TRUE, 120), TimeWindow(TRUE, 60, TRUE, 120)}

Submissions == {Submission(TRUE, l, p, w) :
                    l \in SubmissionLocations, p \in SubmissionPriorities, w \in TimeWindows}

Batches == UNION {[1..n -> Submissions] : n \in 1..MaxBatch}

\* OrderIngestionAgent.process with a batch of raw submissions
SubmitBatch ==
    /\ pc = "idle"
    /\ \E batch \in Batches :
          /\ Cardinality(DOMAIN redis.orders_key) + Len(batch) <= MaxOrders
          /\ LET done == order_ingestion_batch([redis |-> redis, messages |-> messages],
                                               batch, now)
             IN /\ redis' = done.redis
                /\ messages' = done.messages
                /\ last_op' = Op("submit_batch", redis, batch, done.outcomes)
    /\ UNCHANGED <<message_queue, orchVars, graphVars, calculated_routes,
                   exception_agent, now, reports, conc, is_running, routing>>

\* LogisticsSystem.trigger_emergency_protocols
TriggerEmergency ==
    /\ pc = "idle"
    /\ LET done == exception_handling_process(
                       [redis |-> redis, messages |-> messages, agent |-> exception_agent],
                       "emergency_activation", ExceptionData("delivery_failure", 0, 0), 0, now)
       IN /\ redis' = done.redis
          /\ messages' = done.messages
          /\ exception_agent' = done.agent
          /\ last_op' = Op("emergency_activation", redis, now, "ok")
    /\ UNCHANGED <<message_queue, orchVars, graphVars, calculated_routes, now, reports,
                   conc, is_running, routing>>

NextIntake ==
    \/ SubmitBatch
    \/ TriggerEmergency

SpecIntake == Init /\ [][NextIntake]_vars

\* ------------------------------------------- the StateManager's own calls
OrderUpdates == {[state |-> "assigned"], [state |-> "delivered"]}

VehicleUpdates == {[state |-> "moving"], [state |-> "assigned", assigned_orders |-> <<1>>]}

StoreAddOrder ==
    /\ pc = "idle"
    /\ \E id \in 1..MaxOrders, w \in OrderWeights, vol \in OrderVolumes :
          LET order == NewOrder(1, w, vol, 0)
          IN /\ redis' = add_order(redis, id, order)
             /\ last_op' = Op("add_order", redis, [id |-> id, payload |-> order], "ok")
    /\ UNCHANGED <<message_queue, orchVars, graphVars, messages, calculated_routes,
                   exception_agent, now, reports, conc, is_running, routing>>

StoreUpdateOrder ==
    /\ pc = "idle"
    /\ \E id \in 1..MaxOrders, updates \in OrderUpdates :
          /\ redis' = update_order(redis, id, updates)
          /\ last_op' = Op("update_order", redis, [id |-> id, payload |-> updates], "ok")
    /\ UNCHANGED <<message_queue, orchVars, graphVars, messages, calculated_routes,
                   exception_agent, now, reports, conc, is_running, routing>>

StoreAddVehicle ==
    /\ pc = "idle"
    /\ \E id \in 1..MaxVehicles, mo \in VehicleMaxOrders,
          cw \in VehicleCapacityWeights, cv \in VehicleCapacityVolumes :
          LET vehicle == Vehicle(mo, 0, cw, cv)
          IN /\ redis' = add_vehicle(redis, id, vehicle)
             /\ last_op' = Op("add_vehicle", redis, [id |-> id, payload |-> vehicle], "ok")
    /\ UNCHANGED <<message_queue, orchVars, graphVars, messages, calculated_routes,
                   exception_agent, now, reports, conc, is_running, routing>>

StoreUpdateVehicle ==
    /\ pc = "idle"
    /\ \E id \in 1..MaxVehicles, updates \in VehicleUpdates :
          /\ redis' = update_vehicle(redis, id, updates)
          /\ last_op' = Op("update_vehicle", redis, [id |-> id, payload |-> updates], "ok")
    /\ UNCHANGED <<message_queue, orchVars, graphVars, messages, calculated_routes,
                   exception_agent, now, reports, conc, is_running, routing>>

StoreAddRoute ==
    /\ pc = "idle"
    /\ \E route_id \in 1..MaxRoutes :
          /\ redis' = add_route(redis, route_id)
          /\ last_op' = Op("add_route", redis, route_id, "ok")
    /\ UNCHANGED <<message_queue, orchVars, graphVars, messages, calculated_routes,
                   exception_agent, now, reports, conc, is_running, routing>>

StoreClearAllData ==
    /\ pc = "idle"
    /\ redis' = clear_all_data(redis)
    /\ last_op' = Op("clear_all_data", redis, 0, "ok")
    /\ UNCHANGED <<message_queue, orchVars, graphVars, messages, calculated_routes,
                   exception_agent, now, reports, conc, is_running, routing>>

NextStore ==
    \/ StoreAddOrder
    \/ StoreAddRoute
    \/ StoreClearAllData
    \/ StoreUpdateOrder
    \/ StoreAddVehicle
    \/ StoreUpdateVehicle

SpecStore == Init /\ [][NextStore]_vars

\* --------------------------- a vehicle that arrives after the orders' run
\* StateManager.add_vehicle between two runs: the fleet is registered when the
\* first run has found no vehicle at all
AddVehicleLater ==
    /\ runs > 0
    /\ RegisterVehicle

\* process_new_order before the first run only: every order has been through a
\* run that had no vehicle
SubmitOrderEarly ==
    /\ runs = 0
    /\ SubmitOrder

NextRetry ==
    \/ AddVehicleLater
    \/ SubmitOrderEarly
    \/ RunWorkflow
    \/ Orchestrate
    \/ RecursionLimitReached
    \/ OrderIngestionNode
    \/ VehicleAssignmentNode
    \/ RoutePlanningNode

SpecRetry == Init /\ [][NextRetry]_vars

\* ------------------------------------------------- start_system, stop_system
\* a LogisticsSystem that serves calls whether or not it is running
serves_calls_always(running) == TRUE

\* "if not self.is_running: return {"error": "System is not running"}"
serves_calls(running) == running

\* start_system: _initialize_sample_data registers the fleet if the store has
\* no vehicle, then is_running = True
StartSystem ==
    /\ pc = "idle"
    /\ ~is_running
    /\ is_running' = TRUE
    /\ \E m \in VehicleMaxOrders :
          redis' = IF DOMAIN get_system_state(redis).vehicles = {}
                   THEN Fleet(redis, MaxVehicles, m) ELSE redis
    /\ last_op' = Op("start_system", redis, 0, "ok")
    /\ UNCHANGED <<message_queue, orchVars, graphVars, messages, calculated_routes,
                   exception_agent, now, reports, conc, routing>>

StopSystem ==
    /\ pc = "idle"
    /\ is_running
    /\ is_running' = FALSE
    /\ last_op' = Op("stop_system", redis, 0, "ok")
    /\ UNCHANGED <<redis, message_queue, orchVars, graphVars, messages, calculated_routes,
                   exception_agent, now, reports, conc, routing>>

\* the early return of process_new_order and run_workflow_cycle
RefusedCall(name) ==
    /\ pc = "idle"
    /\ last_op' = Op(name, redis, 0, "error")
    /\ UNCHANGED <<redis, message_queue, orchVars, graphVars, messages, calculated_routes,
                   exception_agent, now, reports, conc, is_running, routing>>

\* LogisticsSystem.process_new_order
ProcessNewOrder ==
    IF serves_calls(is_running) THEN SubmitOrder ELSE RefusedCall("process_new_order")

\* LogisticsSystem.run_workflow_cycle
RunWorkflowCycle ==
    IF serves_calls(is_running) THEN RunWorkflow ELSE RefusedCall("run_workflow_cycle")

NextLife ==
    \/ StartSystem
    \/ StopSystem
    \/ ProcessNewOrder
    \/ RunWorkflowCycle
    \/ Orchestrate
    \/ RecursionLimitReached
    \/ OrderIngestionNode
    \/ VehicleAssignmentNode
    \/ RoutePlanningNode

SpecLife == Init /\ [][NextLife]_vars

\* ------------------------- one orchestrator step as a function of its inputs
\* the step counts a graph state may carry into _orchestrate
StepCounts == 0..(STEP_CEILING + 1)

OrderStatesIn == {"new", "assigned", "failed"}

\* a store with orders 1 and 2 in the given states and vehicle 1 carrying the
\* assigned ones
StoreWith(s1, s2) ==
    LET r1 == add_order(add_order(InitRedis, 1, NewOrder(1, 10, 3, 0)), 2, NewOrder(5, 10, 3, 10))
        r2 == update_order(update_order(r1, 1, [state |-> s1]), 2, [state |-> s2])
        carried == SeqOfSet({o \in {1, 2} : r2.orders_key[o].state = "assigned"})
        r3 == add_vehicle(r2, 1, Vehicle(2, 0, 50, 30))
    IN IF carried = <<>> THEN r3
       ELSE update_vehicle(r3, 1, [assigned_orders |-> carried, state |-> "assigned"])

\* A run at the orchestrator node, entered with any step count, store, seen
\* set and queue.
InitDecide ==
    /\ \E n \in StepCounts, s1 \in OrderStatesIn, s2 \in OrderStatesIn,
          seen \in SUBSET {1, 2}, queued \in BOOLEAN :
          /\ redis = StoreWith(s1, s2)
          /\ processed_orders = seen
          /\ wstate = [InitialInput("process_system") EXCEPT !.step_count = n]
          /\ current_step_count = n
          /\ message_queue = IF queued
                             THEN <<AgentMessage("exception_handling_agent", "supervisor_agent",
                                                 "system_alert", <<0>>)>>
                             ELSE <<>>
    /\ failed_assignments = {}
    /\ no_vehicle_attempts = 0
    /\ pc = "orchestrator"
    /\ supersteps = 0
    /\ outcome = "running"
    /\ dispatches = 0
    /\ runs = 1
    /\ messages = [a \in AgentNames |-> {}]
    /\ calculated_routes = {}
    /\ exception_agent = [active_exceptions |-> <<>>, exception_history |-> <<>>,
                          emergency_protocols_active |-> FALSE]
    /\ now = 0
    /\ reports = 0
    /\ conc = NoThreads
    /\ is_running = TRUE
    /\ routing = NoRouting
    /\ last_op = NoOp

NextDecide == Orchestrate

SpecDecide == InitDecide /\ [][NextDecide]_vars

\* ------------------------------------ escalation of exception records
ExceptionType == {"delivery_failure", "vehicle_breakdown", "time_window_violation",
                  "customer_unavailable", "address_invalid", "traffic_delay",
                  "weather_delay", "capacity_exceeded"}

ExceptionSeverity == {"low", "medium", "high", "critical"}

CustomerPriorities == {"normal", "high"}

\* the "exception" dict of a handle_exception request, no order or vehicle named
ExceptionReports ==
    {[ExceptionData(type, 0, 0) EXCEPT !.customer_priority = p, !.time_sensitive = ts] :
        type \in ExceptionType, p \in CustomerPriorities, ts \in BOOLEAN}

\* process({"action": "escalate_exception", "exception_id": i}) on
\* st = [redis, messages, agent]; an unknown id is answered with an error
escalate_exception_process(st, i) ==
    LET st0 == [st EXCEPT !.redis = update_agent_state(@, "exception_handling_agent",
                                                       "executing")]
        esc == IF i \in 1..Len(st.agent.active_exceptions)
               THEN escalate_exception([messages |-> st0.messages,
                                        active |-> st0.agent.active_exceptions], i)
               ELSE [messages |-> st0.messages, active |-> st0.agent.active_exceptions]
    IN [redis |-> update_agent_state(st0.redis, "exception_handling_agent", "monitoring"),
        messages |-> esc.messages,
        agent |-> [st0.agent EXCEPT !.active_exceptions = esc.active]]

\* receive_message: the message joins the agent's list, then _handle_message
\* compares its message_type with "critical_deadline", "delivery_failed" and
\* "vehicle_breakdown"
exception_receive_message(st, message, clock) ==
    LET st0 == [st EXCEPT !.messages["exception_handling_agent"] = @ \cup {message}]
        type == CASE message.message_type = "critical_deadline" -> "time_window_violation"
                  [] message.message_type = "delivery_failed" -> "delivery_failure"
                  [] message.message_type = "vehicle_breakdown" -> "vehicle_breakdown"
                  [] OTHER -> "none"
    IN IF type = "none" THEN st0
       ELSE exception_handling_process(st0, "handle_exception",
                                       ExceptionData(type, message.ref[1], 0), 0, clock)

\* One record on file as _handle_exception files it, with a retry count of
\* its own: _should_escalate reads retry_count, and the check is applied to
\* every count it tells apart.
RecordOnFile(type, severity, retry_count) ==
    [type |-> type, severity |-> severity, order_id |-> 0, vehicle_id |-> 0,
     occurred_at |-> 0, status |-> "active", retry_count |-> retry_count,
     escalation_level |-> 0]

InitEsc ==
    /\ redis = Fleet(InitRedis, MaxVehicles, MaxOrders)
    /\ \/ /\ reports = 0
          /\ exception_agent = [active_exceptions |-> <<>>, exception_history |-> <<>>,
                                emergency_protocols_active |-> FALSE]
       \/ /\ reports = 1
          /\ \E type \in ExceptionType, severity \in ExceptionSeverity,
                retry_count \in 0..MaxRetryCount :
                exception_agent = [active_exceptions |->
                                       <<RecordOnFile(type, severity, retry_count)>>,
                                   exception_history |-> <<>>,
                                   emergency_protocols_active |-> FALSE]
    /\ messages = [a \in AgentNames |-> {}]
    /\ calculated_routes = {}
    /\ message_queue = <<>>
    /\ processed_orders = {}
    /\ failed_assignments = {}
    /\ no_vehicle_attempts = 0
    /\ current_step_count = 0
    /\ pc = "idle"
    /\ wstate = InitialInput("none")
    /\ supersteps = 0
    /\ outcome = "none"
    /\ dispatches = 0
    /\ runs = 0
    /\ now = 0
    /\ conc = NoThreads
    /\ is_running = TRUE
    /\ routing = NoRouting
    /\ last_op = NoOp

\* Minutes pass.
Elapse ==
    /\ now + ElapseStep <= MaxElapsed
    /\ now' = now + ElapseStep
    /\ last_op' = Op("elapse", redis, now, "ok")
    /\ UNCHANGED <<redis, message_queue, orchVars, graphVars, messages, calculated_routes,
                   exception_agent, reports, conc, is_running, routing>>

\* _should_escalate(exception_record) on a record of the active set
ShouldEscalate ==
    /\ \E i \in 1..Len(exception_agent.active_exceptions) :
          last_op' = Op("should_escalate", redis, i,
                        should_escalate(exception_agent.active_exceptions[i], now))
    /\ UNCHANGED <<redis, message_queue, orchVars, graphVars, messages, calculated_routes,
                   exception_agent, now, reports, conc, is_running, routing>>

\* ExceptionHandlingAgent.process({"action": "handle_exception", "exception": report})
HandleReport ==
    /\ reports < MaxReports
    /\ reports' = reports + 1
    /\ \E report \in ExceptionReports :
          LET done == exception_handling_process(
                          [redis |-> redis, messages |-> messages, agent |-> exception_agent],
                          "handle_exception", report, 0, now)
          IN /\ redis' = done.redis
             /\ messages' = done.messages
             /\ exception_agent' = done.agent
             /\ last_op' = Op("handle_exception", redis, report, "handled")
    /\ UNCHANGED <<message_queue, orchVars, graphVars, calculated_routes, now, conc,
                   is_running, routing>>

\* ExceptionHandlingAgent.process({"action": "escalate_exception", "exception_id": i})
EscalateException ==
    /\ \E i \in 1..(Len(exception_agent.active_exceptions) + 1) :
          LET done == escalate_exception_process(
                          [redis |-> redis, messages |-> messages, agent |-> exception_agent],
                          i)
              known == i <= Len(exception_agent.active_exceptions)
          IN /\ known => exception_agent.active_exceptions[i].escalation_level < MaxLevel
             /\ redis' = done.redis
             /\ messages' = done.messages
             /\ exception_agent' = done.agent
             /\ last_op' = Op("escalate_exception", redis, i,
                              IF known THEN "escalated" ELSE "error")
    /\ UNCHANGED <<message_queue, orchVars, graphVars, calculated_routes, now, reports,
                   conc, is_running, routing>>

\* ExceptionHandlingAgent.receive_message with a message another agent built
\* with send_message for a deadline that is missed
ReceiveDeadlineMessage ==
    /\ LET message == AgentMessage("supervisor_agent", "exception_handling_agent",
                                   "critical_deadline", <<0>>)
           done == exception_receive_message(
                       [redis |-> redis, messages |-> messages, agent |-> exception_agent],
                       message, now)
       IN /\ message \notin messages["exception_handling_agent"]
          /\ redis' = done.redis
          /\ messages' = done.messages
          /\ exception_agent' = done.agent
          /\ last_op' = Op("receive_message", redis, message.message_type, "received")
    /\ UNCHANGED <<message_queue, orchVars, graphVars, calculated_routes, now, reports,
                   conc, is_running, routing>>

NextEsc ==
    \/ HandleReport
    \/ EscalateException
    \/ ShouldEscalate
    \/ MonitorExceptions
    \/ ReceiveDeadlineMessage
    \/ Elapse

SpecEsc == InitEsc /\ [][NextEsc]_vars

\* ----------------------------------------- rebalancing an overloaded vehicle
RebalancePriorities == {1, 3, 5}

\* Vehicle 1 carries the orders 1..held, vehicle 2 is idle or carries order 4,
\* vehicle 3 is idle; every order on a vehicle is Assigned.
OverloadedFleet(held, max_orders, p1, p2, p3, busy) ==
    LET prio == <<p1, p2, p3, 3>>
        on2 == IF busy THEN <<4>> ELSE <<>>
        ids == (1..held) \cup (IF busy THEN {4} ELSE {})
        WithOrders[n \in 0..4] ==
            IF n = 0 THEN InitRedis
            ELSE IF n \in ids
                 THEN add_order(WithOrders[n - 1], n,
                                [NewOrder(prio[n], 10, 3, 0) EXCEPT !.state = "assigned"])
                 ELSE WithOrders[n - 1]
        r1 == add_vehicle(WithOrders[4], 1,
                  [Vehicle(max_orders, 0, 100, 30)
                       EXCEPT !.assigned_orders = SeqOfSet(1..held), !.state = "assigned"])
        r2 == add_vehicle(r1, 2,
                  [Vehicle(2, 0, 100, 30)
                       EXCEPT !.assigned_orders = on2,
                              !.state = IF busy THEN "assigned" ELSE "idle"])
    IN add_vehicle(r2, 3, Vehicle(2, 10, 100, 30))

InitRebalance ==
    /\ \E held \in 2..MaxHeld, max_orders \in 1..2, p1 \in RebalancePriorities,
          p2 \in RebalancePriorities, p3 \in RebalancePriorities, busy \in BOOLEAN :
          redis = OverloadedFleet(held, max_orders, p1, p2, p3, busy)
    /\ messages = [a \in AgentNames |-> {}]
    /\ calculated_routes = {}
    /\ message_queue = <<>>
    /\ processed_orders = {}
    /\ failed_assignments = {}
    /\ no_vehicle_attempts = 0
    /\ current_step_count = 0
    /\ pc = "idle"
    /\ wstate = InitialInput("none")
    /\ supersteps = 0
    /\ outcome = "none"
    /\ dispatches = 0
    /\ runs = 0
    /\ exception_agent = [active_exceptions |-> <<>>, exception_history |-> <<>>,
                          emergency_protocols_active |-> FALSE]
    /\ now = 0
    /\ reports = 0
    /\ conc = NoThreads
    /\ is_running = TRUE
    /\ routing = NoRouting
    /\ last_op = NoOp

\* VehicleAssignmentAgent.rebalance_vehicle(vehicle_id)
RebalanceVehicle ==
    /\ \E vehicle_id \in DOMAIN redis.vehicles_key :
          /\ redis' = rebalance_vehicle(redis, vehicle_id)
          /\ last_op' = Op("rebalance_vehicle", redis, vehicle_id,
                           IF Len(redis.vehicles_key[vehicle_id].assigned_orders)
                                 <= redis.vehicles_key[vehicle_id].max_orders
                           THEN "not_overloaded" ELSE "rebalanced")
    /\ UNCHANGED <<message_queue, orchVars, graphVars, messages, calculated_routes,
                   exception_agent, now, reports, conc, is_running, routing>>

NextRebalance == RebalanceVehicle

SpecRebalance == InitRebalance /\ [][NextRebalance]_vars

\* ------------------------------------------- the three routing strategies
\* Locations are points on a line and the distance is calculate_distance.
\* The traffic factor (1.0, 1.2 or 1.8 by the hour of departure) is given in
\* tenths; the calls are made off peak, where it is 1.0 for every leg.
TrafficFactors == {10}

\* _calculate_travel_cost: distance_km, duration_minutes = 1.5 * distance *
\* factor (here times 100), cost = 0.5 * distance + 0.1 * duration (times 1000)
calculate_travel_cost(from_loc, to_loc, factor) ==
    LET base_distance == calculate_distance(from_loc, to_loc)
    IN [distance_km |-> base_distance,
        duration_minutes |-> 15 * base_distance * factor,
        cost |-> 500 * base_distance + 15 * base_distance * factor]

\* The pickup stop and the delivery stop the three strategies append for one
\* order, the vehicle being at current_location.
pickup_and_delivery(o, order, current_location, factor) ==
    LET pickup_travel == calculate_travel_cost(current_location, order.pickup_location, factor)
        delivery_travel == calculate_travel_cost(order.pickup_location,
                                                 order.delivery_location, factor)
    IN <<[type |-> "pickup", order_id |-> o, location |-> order.pickup_location,
          travel_distance_km |-> pickup_travel.distance_km,
          travel_duration_minutes |-> pickup_travel.duration_minutes],
         [type |-> "delivery", order_id |-> o, location |-> order.delivery_location,
          travel_distance_km |-> delivery_travel.distance_km,
          travel_duration_minutes |-> delivery_travel.duration_minutes]>>

\* _greedy_insertion_route, the choice of one pass of the while loop: the
\* first order of the list with the least pickup-plus-delivery cost (the
\* orders carry no time window); 0 stands for None
greedy_best_order(remaining_orders, orders, current_location, factor) ==
    LET total_cost(o) ==
            calculate_travel_cost(current_location, orders[o].pickup_location, factor).cost
            + calculate_travel_cost(orders[o].pickup_location,
                                    orders[o].delivery_location, factor).cost
        least == {i \in 1..Len(remaining_orders) :
                     \A j \in 1..Len(remaining_orders) :
                        /\ total_cost(remaining_orders[i]) <= total_cost(remaining_orders[j])
                        /\ j < i => total_cost(remaining_orders[j])
                                       > total_cost(remaining_orders[i])}
    IN IF least = {} THEN 0 ELSE remaining_orders[CHOOSE i \in least : TRUE]

\* _simple_nearest_neighbor_route, the choice of one pass: the first order of
\* the list whose pickup is nearest
nearest_order(remaining_orders, orders, current_location) ==
    LET distance(o) == calculate_distance(current_location, orders[o].pickup_location)
        least == {i \in 1..Len(remaining_orders) :
                     \A j \in 1..Len(remaining_orders) :
                        /\ distance(remaining_orders[i]) <= distance(remaining_orders[j])
                        /\ j < i => distance(remaining_orders[j])
                                       > distance(remaining_orders[i])}
    IN IF least = {} THEN 0 ELSE remaining_orders[CHOOSE i \in least : TRUE]

\* remaining_orders.remove(order): the first occurrence goes
remove_order(remaining_orders, o) ==
    LET first == CHOOSE i \in 1..Len(remaining_orders) :
                    /\ remaining_orders[i] = o
                    /\ \A j \in 1..(i - 1) : remaining_orders[j] # o
    IN RemoveAt(remaining_orders, first)

RECURSIVE build_route_from_sequence(_, _, _, _)
\* _build_route_from_sequence
build_route_from_sequence(current_location, order_sequence, orders, factor) ==
    IF order_sequence = <<>> THEN <<>>
    ELSE LET o == Head(order_sequence)
         IN pickup_and_delivery(o, orders[o], current_location, factor)
            \o build_route_from_sequence(orders[o].delivery_location, Tail(order_sequence),
                                         orders, factor)

RECURSIVE SumOver(_, _)
SumOver(stops, field) ==
    IF stops = <<>> THEN 0 ELSE Head(stops)[field] + SumOver(Tail(stops), field)

\* The denominator of the fitness 1.0 / (total_distance_km + 0.1 *
\* total_duration_minutes), times 1000; the division raises when it is 0.
fitness_denominator(route_stops) ==
    1000 * SumOver(route_stops, "travel_distance_km")
    + SumOver(route_stops, "travel_duration_minutes")

\* the orderings random.shuffle can give
Shuffles(ids) ==
    {p \in [1..Len(ids) -> SeqToSet(ids)] : \A i, j \in 1..Len(ids) : p[i] = p[j] => i = j}

\* population_size = min(20, len(orders) * 2)
population_size(n) == IF 2 * n < PopulationCap THEN 2 * n ELSE PopulationCap

\* _crossover with start and end as random.randint drew them: the slice
\* [start:end] of parent1 stays in place and the other positions take the
\* items of parent2 that are not in the slice, in parent2's order
crossover(parent1, parent2, start, end) ==
    IF Len(parent1) <= 2 THEN parent1
    ELSE LET slice == {parent1[i] : i \in (start + 1)..end}
             remaining == SelectSeq(parent2, LAMBDA item : item \notin slice)
             before(i) == Cardinality({k \in 1..(i - 1) : k \notin (start + 1)..end})
         IN [i \in 1..Len(parent1) |->
                IF i \in (start + 1)..end THEN parent1[i] ELSE remaining[before(i) + 1]]

\* _mutate with the two positions random.sample drew
mutate(individual, i, j) ==
    [individual EXCEPT ![i] = individual[j], ![j] = individual[i]]

\* Every child one generation can breed from a population: the tournaments
\* may pick any two parents, the cut is start in 0..len-2 and end in
\* start+1..len, and one child in ten is mutated.
Children(population) ==
    LET bred == {crossover(parent1, parent2, start, end) :
                    <<parent1, parent2, start, end>> \in
                        {q \in population \X population \X (0..MaxRouteOrders)
                                \X (1..MaxRouteOrders) :
                            /\ q[3] <= Len(q[1]) - 2 \/ (Len(q[1]) <= 2 /\ q[3] = 0)
                            /\ q[4] \in (q[3] + 1)..Len(q[1])}}
        mutated == {mutate(child, i, j) :
                       <<child, i, j>> \in
                           {q \in bred \X (1..MaxRouteOrders) \X (1..MaxRouteOrders) :
                               q[2] # q[3] /\ q[2] <= Len(q[1]) /\ q[3] <= Len(q[1])}}
    IN bred \cup mutated

\* The orders a routed vehicle can hold: priority, pickup and delivery.
RouteOrderKinds ==
    {[priority |-> 1, pickup_location |-> 0, delivery_location |-> 0],
     [priority |-> 5, pickup_location |-> 0, delivery_location |-> 10],
     [priority |-> 1, pickup_location |-> 10, delivery_location |-> 0]}

RoutingAlgorithms == {"greedy_insertion", "nearest_neighbor", "genetic_algorithm"}

\* _plan_vehicle_route is called for a vehicle at location 0 that holds one
\* to MaxRouteOrders orders, under one of the three strategies.
InitRoute ==
    /\ redis = InitRedis
    /\ messages = [a \in AgentNames |-> {}]
    /\ calculated_routes = {}
    /\ message_queue = <<>>
    /\ processed_orders = {}
    /\ failed_assignments = {}
    /\ no_vehicle_attempts = 0
    /\ current_step_count = 0
    /\ pc = "idle"
    /\ wstate = InitialInput("none")
    /\ supersteps = 0
    /\ outcome = "none"
    /\ dispatches = 0
    /\ runs = 0
    /\ exception_agent = [active_exceptions |-> <<>>, exception_history |-> <<>>,
                          emergency_protocols_active |-> FALSE]
    /\ now = 0
    /\ reports = 0
    /\ conc = NoThreads
    /\ is_running = TRUE
    /\ \E n \in 1..MaxRouteOrders, algorithm \in RoutingAlgorithms, factor \in TrafficFactors :
          \E orders \in [1..n -> RouteOrderKinds] :
             routing = [pc |-> "called", algorithm |-> algorithm, vehicle_location |-> 0,
                        orders |-> orders, factor |-> factor, remaining_orders |-> <<>>,
                        current_location |-> 0, route_stops |-> <<>>, population |-> {},
                        generation |-> 0, status |-> "planning"]
    /\ last_op = NoOp

RouteUnchanged ==
    UNCHANGED <<redis, message_queue, processed_orders, failed_assignments,
                no_vehicle_attempts, current_step_count, pc, wstate, supersteps, outcome,
                dispatches, runs, messages, calculated_routes, exception_agent, now,
                reports, conc, is_running, last_op>>

\* the assigned orders in the order the vehicle lists them
assigned_order_ids(r) == [i \in 1..Len(r.orders) |-> i]

\* _plan_vehicle_route enters the strategy self.current_algorithm names:
\* the greedy strategy sorts the orders by falling priority, the genetic
\* one shuffles population_size orderings (kept as a set).
PlanVehicleRoute ==
    /\ routing.pc = "called"
    /\ \/ /\ routing.algorithm = "greedy_insertion"
          /\ routing' = [routing EXCEPT
                 !.pc = "greedy",
                 !.remaining_orders = SortByPriorityDesc(assigned_order_ids(routing),
                                                         routing.orders)]
       \/ /\ routing.algorithm = "nearest_neighbor"
          /\ routing' = [routing EXCEPT !.pc = "nearest",
                                        !.remaining_orders = assigned_order_ids(routing)]
       \/ /\ routing.algorithm = "genetic_algorithm"
          /\ \E population \in SUBSET Shuffles(assigned_order_ids(routing)) :
                /\ population # {}
                /\ Cardinality(population) <= population_size(Len(routing.orders))
                /\ routing' = [routing EXCEPT !.pc = "genetic", !.population = population]
    /\ RouteUnchanged

\* the loop body shared by the greedy and the nearest-neighbour strategy:
\* append the pickup and the delivery of order o and drop it from the list
visit_order(r, o) ==
    [r EXCEPT !.route_stops = @ \o pickup_and_delivery(o, r.orders[o], r.current_location,
                                                       r.factor),
              !.current_location = r.orders[o].delivery_location,
              !.remaining_orders = remove_order(@, o)]

\* one pass of the while loop of _greedy_insertion_route, or its return
GreedyInsertionPass ==
    /\ routing.pc = "greedy"
    /\ LET best_order == greedy_best_order(routing.remaining_orders, routing.orders,
                                           routing.current_location, routing.factor)
       IN routing' = IF routing.remaining_orders = <<>> \/ best_order = 0
                     THEN [routing EXCEPT !.pc = "done", !.status = "returned"]
                     ELSE visit_order(routing, best_order)
    /\ RouteUnchanged

\* one pass of the while loop of _simple_nearest_neighbor_route, or its
\* return; a pass that finds no order leaves the list as it is
NearestNeighborPass ==
    /\ routing.pc = "nearest"
    /\ LET nearest == nearest_order(routing.remaining_orders, routing.orders,
                                    routing.current_location)
       IN routing' = IF routing.remaining_orders = <<>>
                     THEN [routing EXCEPT !.pc = "done", !.status = "returned"]
                     ELSE IF nearest = 0 THEN routing
                     ELSE visit_order(routing, nearest)
    /\ RouteUnchanged

\* the fitness of an individual cannot be computed
fitness_raises(r, individual) ==
    fitness_denominator(build_route_from_sequence(r.vehicle_location, individual, r.orders,
                                                  r.factor)) = 0

\* one generation of _genetic_algorithm_route: the fitness of every
\* individual, then population_size children; ZeroDivisionError leaves the
\* call without a route
GeneticGeneration ==
    /\ routing.pc = "genetic"
    /\ routing.generation < Generations
    /\ IF \E individual \in routing.population : fitness_raises(routing, individual)
       THEN routing' = [routing EXCEPT !.pc = "done", !.status = "raised"]
       ELSE \E new_population \in SUBSET Children(routing.population) :
               /\ new_population # {}
               /\ Cardinality(new_population) <= population_size(Len(routing.orders))
               /\ routing' = [routing EXCEPT !.population = new_population,
                                             !.generation = @ + 1]
    /\ RouteUnchanged

\* the return of _genetic_algorithm_route: the first of the fittest
\* individuals of the last population, built into stops
GeneticReturn ==
    /\ routing.pc = "genetic"
    /\ routing.generation = Generations
    /\ IF \E individual \in routing.population : fitness_raises(routing, individual)
       THEN routing' = [routing EXCEPT !.pc = "done", !.status = "raised"]
       ELSE \E best_individual \in routing.population :
               /\ \A individual \in routing.population :
                     fitness_denominator(build_route_from_sequence(
                         routing.vehicle_location, best_individual, routing.orders,
                         routing.factor))
                     <= fitness_denominator(build_route_from_sequence(
                            routing.vehicle_location, individual, routing.orders,
                            routing.factor))
               /\ routing' = [routing EXCEPT
                      !.pc = "done", !.status = "returned",
                      !.route_stops = build_route_from_sequence(
                          routing.vehicle_location, best_individual, routing.orders,
                          routing.factor)]
    /\ RouteUnchanged

NextRoute ==
    \/ PlanVehicleRoute
    \/ GreedyInsertionPass
    \/ NearestNeighborPass
    \/ GeneticGeneration
    \/ GeneticReturn

SpecRoute == InitRoute /\ [][NextRoute]_vars

\* ------------------------------------------- assignment and real loads
\* Orders of unequal weight and volume wait for a fleet of one or two
\* vehicles that carry at most 50 kg and 3.0 m3 (volumes in tenths).
CargoWeights == {10, 40}
CargoVolumes == {3, 20}

CargoStore(n, fleet, weight, volume) ==
    LET WithOrders[k \in 0..n] ==
            IF k = 0 THEN Fleet(InitRedis, fleet, MaxCargo)
            ELSE add_order(WithOrders[k - 1], k, NewOrder(3, weight[k], volume[k], 0))
    IN WithOrders[n]

InitCapacity ==
    /\ \E n \in 1..MaxCargo, fleet \in 1..MaxVehicles :
          \E weight \in [1..n -> CargoWeights], volume \in [1..n -> CargoVolumes] :
             redis = CargoStore(n, fleet, weight, volume)
    /\ messages = [a \in AgentNames |-> {}]
    /\ calculated_routes = {}
    /\ message_queue = <<>>
    /\ processed_orders = {}
    /\ failed_assignments = {}
    /\ no_vehicle_attempts = 0
    /\ current_step_count = 0
    /\ pc = "idle"
    /\ wstate = InitialInput("none")
    /\ supersteps = 0
    /\ outcome = "none"
    /\ dispatches = 0
    /\ runs = 0
    /\ exception_agent = [active_exceptions |-> <<>>, exception_history |-> <<>>,
                          emergency_protocols_active |-> FALSE]
    /\ now = 0
    /\ reports = 0
    /\ conc = NoThreads
    /\ is_running = TRUE
    /\ routing = NoRouting
    /\ last_op = NoOp

\* VehicleAssignmentAgent.process(input_data): one pass over the New orders
AssignOrders ==
    /\ LET done == vehicle_assignment_process([redis |-> redis, messages |-> messages])
       IN /\ redis' = done.redis
          /\ messages' = done.messages
          /\ last_op' = Op("assign_orders", redis, done.result.assignments,
                           done.result.message)
    /\ UNCHANGED <<message_queue, orchVars, graphVars, calculated_routes,
                   exception_agent, now, reports, conc, is_running, routing>>

NextCapacity == AssignOrders

SpecCapacity == InitCapacity /\ [][NextCapacity]_vars

\* ---------------------------- a breakdown report during an assignment step
\* A fleet of idle vehicles and one or two New orders; the assignment step
\* and the handling of a breakdown report run in two threads.
InitBreakdown ==
    /\ \E fleet \in 1..MaxVehicles, max_orders \in VehicleMaxOrders, n \in 1..MaxOrders,
          priority \in [1..MaxOrders -> {1, 5}], pickup \in Places :
          LET WithOrders[k \in 0..n] ==
                  IF k = 0 THEN Fleet(InitRedis, fleet, max_orders)
                  ELSE add_order(WithOrders[k - 1], k, NewOrder(priority[k], 10, 3, pickup))
          IN redis = WithOrders[n]
    /\ messages = [a \in AgentNames |-> {}]
    /\ calculated_routes = {}
    /\ message_queue = <<>>
    /\ processed_orders = {}
    /\ failed_assignments = {}
    /\ no_vehicle_attempts = 0
    /\ current_step_count = 0
    /\ pc = "idle"
    /\ wstate = InitialInput("none")
    /\ supersteps = 0
    /\ outcome = "none"
    /\ dispatches = 0
    /\ runs = 0
    /\ exception_agent = [active_exceptions |-> <<>>, exception_history |-> <<>>,
                          emergency_protocols_active |-> FALSE]
    /\ now = 0
    /\ reports = 0
    /\ conc = NoThreads
    /\ is_running = TRUE
    /\ routing = NoRouting
    /\ last_op = NoOp

\* VehicleAssignmentAgent.process up to _assign_vehicles_to_orders: the
\* snapshot is read and the pairs are chosen from it; with no New order or no
\* available vehicle the call returns here.
AssignmentReadsSnapshot ==
    /\ conc.wpc = "done"
    /\ LET r0 == update_agent_state(redis, "vehicle_assignment_agent", "executing")
           system_state == get_system_state(r0)
           unassigned_orders == SeqOfSet({o \in DOMAIN system_state.orders :
                                            system_state.orders[o].state = "new"})
           available_vehicles == agent_get_available_vehicles(system_state)
           assignments == balanced_workload_assignment(
                              SortByPriorityDesc(unassigned_orders, system_state.orders),
                              available_vehicles, system_state)
       IN IF unassigned_orders = <<>> \/ available_vehicles = <<>>
          THEN /\ redis' = update_agent_state(r0, "vehicle_assignment_agent", "monitoring")
               /\ conc' = conc
               /\ last_op' = Op("assignment_read", redis, <<>>, "nothing_to_assign")
          ELSE /\ redis' = r0
               /\ conc' = [conc EXCEPT !.wpc = "execute_assignments",
                                       !.pending = assignments]
               /\ last_op' = Op("assignment_read", redis, assignments, "assignments")
    /\ UNCHANGED <<message_queue, orchVars, graphVars, messages, calculated_routes,
                   exception_agent, now, reports, is_running, routing>>

\* VehicleAssignmentAgent.process from _execute_assignments on: the store
\* writes for the pairs chosen from the snapshot
AssignmentWritesStore ==
    /\ conc.wpc = "execute_assignments"
    /\ LET done == execute_assignments([redis |-> redis, messages |-> messages],
                                       conc.pending)
       IN /\ redis' = update_agent_state(done.redis, "vehicle_assignment_agent",
                                         "monitoring")
          /\ messages' = done.messages
          /\ last_op' = Op("execute_assignments", redis, conc.pending, "assignments")
    /\ conc' = [conc EXCEPT !.wpc = "done", !.pending = <<>>]
    /\ UNCHANGED <<message_queue, orchVars, graphVars, calculated_routes,
                   exception_agent, now, reports, is_running, routing>>

NextBreakdown ==
    \/ AssignmentReadsSnapshot
    \/ ReportBreakdown
    \/ AssignmentWritesStore

SpecBreakdown == InitBreakdown /\ [][NextBreakdown]_vars

\* ------------------------------------------------------------- properties
RunReturned == pc = "idle" /\ outcome \notin {"none", "running"}

HashVehicles == redis.vehicles_key
HashOrders == redis.orders_key

AssignedOrLater == {"assigned", "en_route", "delivered"}

Carriers(vehicles, o) == {v \in DOMAIN vehicles : o \in SeqToSet(vehicles[v].assigned_orders)}

\* C1: every run of the dispatch cycle returns by the orchestrator's own
\* decision after at most STEP_CEILING worker dispatches, never by the graph's
\* recursion limit.
C1_RunEndsWithinStepCeiling ==
    RunReturned =>
        /\ outcome \in {"no_pending_actions", "threshold", "force_end"}
        /\ dispatches <= STEP_CEILING

\* C2: whenever run_workflow has returned, every vehicle in the store carries
\* at most max_orders orders.
C2_NoOverloadAtCycleEnd ==
    RunReturned =>
        \A v \in DOMAIN Vehicles : Len(Vehicles[v].assigned_orders) <= Vehicles[v].max_orders

\* C3: after every worker operation, each order whose state is Assigned or
\* later is in the assigned_orders of exactly one vehicle.
C3_AssignedOrderOnExactlyOneVehicle ==
    \A o \in DOMAIN Orders :
        Orders[o].state \in AssignedOrLater => Cardinality(Carriers(Vehicles, o)) = 1

SeenNewOrders == {o \in DOMAIN Orders : Orders[o].state = "new" /\ o \in processed_orders}

\* C4: a run that saw New orders while no vehicle was available returns only
\* after noVehicleAttempts reached 3 and the pending orders were added to
\* failedAssignment, and it returns through the "no pending actions" branch.
C4_NoVehicleRunGivesUpOnOrders ==
    (RunReturned /\ DOMAIN Vehicles = {} /\ SeenNewOrders # {}) =>
        /\ no_vehicle_attempts >= NoVehicleLimit
        /\ SeenNewOrders \subseteq failed_assignments
        /\ outcome = "no_pending_actions"

FreeSlots(vehicle) ==
    IF vehicle.max_orders > Len(vehicle.assigned_orders)
    THEN vehicle.max_orders - Len(vehicle.assigned_orders) ELSE 0

\* C5: one invocation of the Assignment Engine gives each vehicle at most
\* max_orders - len(assigned_orders) new orders.
C5_AssignmentFillsOnlyFreeSlots ==
    last_op.name = "vehicle_assignment_agent" =>
        \A v \in DOMAIN HashVehicles :
            Len(HashVehicles[v].assigned_orders)
                <= Len(last_op.pre.vehicles_key[v].assigned_orders)
                   + FreeSlots(last_op.pre.vehicles_key[v])

\* C6: after a breakdown of vehicle B is handled while another vehicle is
\* available, the replacement's assigned_orders is B's list from before the
\* report, B's list is empty and B is in Maintenance, in the hash and in the
\* snapshot alike.
C6_BreakdownHandsOrdersToReplacement ==
    (last_op.name = "vehicle_breakdown" /\ last_op.arg[2] # 0) =>
        LET B == last_op.arg[1]
            replacement == last_op.arg[2]
            former == last_op.pre.vehicles_key[B].assigned_orders
        IN /\ HashVehicles[replacement].assigned_orders = former
           /\ HashVehicles[B].assigned_orders = <<>>
           /\ HashVehicles[B].state = "maintenance"
           /\ Vehicles[replacement].assigned_orders = former
           /\ Vehicles[B].assigned_orders = <<>>
           /\ Vehicles[B].state = "maintenance"

\* C6 happens: a broken vehicle that carried orders handed them to a replacement.
C6_BreakdownWithOrdersSeen ==
    /\ last_op.name = "vehicle_breakdown"
    /\ last_op.arg[2] # 0
    /\ last_op.pre.vehicles_key[last_op.arg[1]].assigned_orders # <<>>
    /\ HashVehicles[last_op.arg[2]].assigned_orders # <<>>

Registered == AgentNames \ {"orchestrator"}

Sent(a) == {m \in messages[a] : m.sender_agent = a}

\* C7: no read of the store that falls between the Assignment Engine's writes
\* shows a half-updated pairing: an order Assigned that no vehicle carries, or a
\* vehicle carrying an order that is not Assigned.
C7_ReaderSeesWholePairing ==
    \A o \in DOMAIN conc.observed.orders :
        (conc.observed.orders[o].state = "assigned")
            <=> (Carriers(conc.observed.vehicles, o) # {})

\* C8: once a concurrent add_order and the worker's update_order and
\* update_vehicle have all finished, the snapshot holds the new order and the
\* worker's updates.
C8_NoCompletedWriteLost ==
    (conc.wpc = "done" /\ conc.xpc = "done") =>
        LET state == get_system_state(redis)
        IN /\ 2 \in DOMAIN state.orders
           /\ state.orders[1].state = "assigned"
           /\ 1 \in SeqToSet(state.vehicles[1].assigned_orders)

\* C9: every message a worker has sent to a registered worker is on the
\* orchestrator's message queue or has been received by its recipient.
C9_SentMessageIsQueuedOrDelivered ==
    \A a \in Registered : \A m \in Sent(a) :
        m.recipient_agent \in Registered =>
            \/ m \in SeqToSet(message_queue)
            \/ m \in messages[m.recipient_agent]

\* C10: a drain of a non-empty queue completes without error, leaves the queue
\* empty and has handed every queued message to its recipient.
C10_DrainDeliversAndEmptiesQueue ==
    (last_op.name = "orchestrate" /\ last_op.arg # <<>>) =>
        /\ last_op.result # "error"
        /\ message_queue = <<>>
        /\ \A i \in 1..Len(last_op.arg) :
               last_op.arg[i] \in messages[last_op.arg[i].recipient_agent]

\* C11: a message enqueued while a drain is under way is not delivered by that
\* drain, and it is delivered by a later one: once it has left the queue its
\* recipient has received it.
C11_LateMessageWaitsForNextDrain ==
    \A m \in conc.late :
        /\ (m.ref = <<LateRef + runs>> /\ last_op.name \in {"drain", "route_message"})
               => m \notin messages[m.recipient_agent]
        /\ m \in SeqToSet(message_queue) \/ m \in messages[m.recipient_agent]

SameException(a, b) ==
    /\ a.type = b.type
    /\ a.order_id = b.order_id
    /\ a.vehicle_id = b.vehicle_id
    /\ a.occurred_at = b.occurred_at

ActiveRecordsKept ==
    LET active == exception_agent.active_exceptions
    IN /\ \A i \in 1..Len(active) :
              active[i].status = "active" =>
                  /\ Len(exception_agent'.active_exceptions) >= i
                  /\ SameException(exception_agent'.active_exceptions[i], active[i])
                  /\ exception_agent'.active_exceptions[i].status = "active"
       /\ \A i \in 1..Len(exception_agent'.exception_history) :
              exception_agent'.exception_history[i].status = "resolved"
       /\ (last_op'.name = "vehicle_breakdown" /\ last_op'.arg[2] = 0) =>
              LET after == exception_agent'.active_exceptions
              IN /\ Len(after) = Len(active) + 1
                 /\ after[Len(after)].type = "vehicle_breakdown"
                 /\ after[Len(after)].vehicle_id = last_op'.arg[1]
                 /\ after[Len(after)].status = "active"

\* C12: no step removes a record whose status is active from the active set;
\* a breakdown report that finds no replacement leaves its record there with
\* status active; only resolved records are moved to the history.
C12_ActiveRecordStaysInActiveSet == [][ActiveRecordsKept]_vars

\* C12 happens: the record of a breakdown that found no replacement is still
\* active after monitoring ran more than the retention window later.
C12_UnrecoveredBreakdownOutlivesRetention ==
    /\ last_op.name = "exception_monitoring"
    /\ \E i \in 1..Len(exception_agent.active_exceptions) :
          LET rec == exception_agent.active_exceptions[i]
          IN /\ rec.type = "vehicle_breakdown"
             /\ rec.status = "active"
             /\ now - rec.occurred_at > RetentionMinutes
             /\ HashVehicles[rec.vehicle_id].state = "maintenance"
             /\ get_available_vehicles(redis) = {}

\* What the intake's description calls a valid submission: the required field,
\* both coordinates, a priority in range, a start that is not in the past and,
\* with an end, lies before it.
ValidSubmission(d, clock) ==
    /\ d.customer_id
    /\ {"latitude", "longitude"} \subseteq d.location
    /\ d.priority \in 1..5
    /\ d.window.has_start => d.window.start >= clock
    /\ (d.window.has_start /\ d.window.has_end) => d.window.start < d.window.end

\* C13: in a batch every valid submission creates an order in state New and
\* every invalid one is listed in the failures and creates no order, whatever
\* its position in the batch and whatever the other submissions are.
C13_EachSubmissionJudgedOnItsOwn ==
    last_op.name = "submit_batch" =>
        \A i \in DOMAIN last_op.arg :
            LET out == last_op.result[i]
            IN IF ValidSubmission(last_op.arg[i], now)
               THEN /\ out.order_id \in DOMAIN redis.orders_key \ DOMAIN last_op.pre.orders_key
                    /\ redis.orders_key[out.order_id].state = "new"
               ELSE /\ out.order_id = 0
                    /\ out.errors # {}

\* C14: a submission whose time window start lies in the past is rejected with
\* 'Time window start cannot be in the past', with or without a window end.
C14_PastStartIsRejected ==
    last_op.name = "submit_batch" =>
        \A i \in DOMAIN last_op.arg :
            (last_op.arg[i].window.has_start /\ last_op.arg[i].window.start < now) =>
                /\ last_op.result[i].order_id = 0
                /\ "Time window start cannot be in the past" \in last_op.result[i].errors

\* C20: while the emergency protocols are active the intake creates no order.
C20_NoIntakeDuringEmergency ==
    (last_op.name = "submit_batch" /\ exception_agent.emergency_protocols_active) =>
        DOMAIN redis.orders_key = DOMAIN last_op.pre.orders_key

\* C16: get_available_vehicles returns exactly the stored vehicles that are
\* Idle, or Assigned with fewer orders than max_orders; never one that is
\* Moving, in Maintenance, or Assigned with a full order list.
C16_AvailableVehiclesHaveRoom ==
    get_available_vehicles(redis) =
        {v \in DOMAIN redis.vehicles_key :
            \/ redis.vehicles_key[v].state = "idle"
            \/ /\ redis.vehicles_key[v].state = "assigned"
               /\ Len(redis.vehicles_key[v].assigned_orders) < redis.vehicles_key[v].max_orders}

\* C17: update_order and update_vehicle with an id that is not stored change
\* nothing: the call returns normally and the stored orders, vehicles, routes
\* and the snapshot are as before.
C17_UpdateOfUnknownIdIsNoOp ==
    /\ (last_op.name = "update_order" /\ last_op.arg.id \notin DOMAIN last_op.pre.orders_key)
           => (redis = last_op.pre /\ last_op.result = "ok")
    /\ (last_op.name = "update_vehicle" /\ last_op.arg.id \notin DOMAIN last_op.pre.vehicles_key)
           => (redis = last_op.pre /\ last_op.result = "ok")

\* C17: an update_order for an id that is not stored, made while another order
\* and a vehicle are stored
C17_UnknownOrderUpdatedBesideStoredOnes ==
    /\ last_op.name = "update_order"
    /\ last_op.arg.id \notin DOMAIN last_op.pre.orders_key
    /\ DOMAIN last_op.pre.orders_key # {}
    /\ DOMAIN last_op.pre.vehicles_key # {}

\* C18: add_vehicle with the payload that is already stored under that id, in
\* the per-entity record and in the snapshot, leaves that vehicle and every
\* other stored entity as they were.
C18_AddVehicleTwiceIsAddVehicleOnce ==
    (/\ last_op.name = "add_vehicle"
     /\ last_op.arg.id \in DOMAIN last_op.pre.vehicles_key
     /\ last_op.arg.id \in DOMAIN last_op.pre.state_key.vehicles
     /\ last_op.pre.vehicles_key[last_op.arg.id] = last_op.arg.payload
     /\ last_op.pre.state_key.vehicles[last_op.arg.id] = last_op.arg.payload)
    => /\ redis.vehicles_key = last_op.pre.vehicles_key
       /\ redis.orders_key = last_op.pre.orders_key
       /\ redis.state_key.vehicles = last_op.pre.state_key.vehicles
       /\ redis.state_key.orders = last_op.pre.state_key.orders
       /\ redis.state_key.routes = last_op.pre.state_key.routes

\* C18: the second of two add_vehicle calls with one payload, made while an
\* order and another vehicle are stored
C18_SamePayloadAddedAgain ==
    /\ last_op.name = "add_vehicle"
    /\ last_op.arg.id \in DOMAIN last_op.pre.vehicles_key
    /\ last_op.pre.vehicles_key[last_op.arg.id] = last_op.arg.payload
    /\ DOMAIN last_op.pre.vehicles_key # {last_op.arg.id}
    /\ DOMAIN last_op.pre.orders_key # {}

\* an Idle vehicle that can take the order: a free slot and room for its load
FeasibleIdle(vehicle, order) ==
    /\ vehicle.state = "idle"
    /\ Len(vehicle.assigned_orders) < vehicle.max_orders
    /\ order.weight <= vehicle.capacity_weight
    /\ order.volume <= vehicle.capacity_volume

\* C15: an order that a run left New for want of a vehicle is assigned by a
\* later run that has a feasible Idle vehicle: at the return of such a run no
\* order known to the orchestrator is still New beside an Idle vehicle that
\* could take it, and failed_assignments holds no order.
C15_LaterRunAssignsWaitingOrder ==
    (RunReturned /\ runs >= 2 /\ last_op.name \notin {"add_vehicle", "submit_order"}) =>
        /\ failed_assignments = {}
        /\ \A o \in processed_orders \cap DOMAIN HashOrders :
              HashOrders[o].state = "new" =>
                  \A v \in DOMAIN HashVehicles : ~FeasibleIdle(HashVehicles[v], HashOrders[o])

\* C15: the second run has returned, the fleet arrived after the first run,
\* and an order known since the first run is now assigned
C15_WaitingOrderAssignedBySecondRun ==
    /\ RunReturned
    /\ runs = 2
    /\ last_op.name \notin {"add_vehicle", "submit_order"}
    /\ DOMAIN HashVehicles # {}
    /\ \E o \in processed_orders \cap DOMAIN HashOrders : HashOrders[o].state = "assigned"

\* C19: an exception raised inside a worker's process stays inside it: the
\* node hands back an error result, the worker's recorded status is Monitoring
\* again, and control is back at the orchestrator with the run still going.
C19_WorkerErrorStaysInWorker ==
    (last_op.name = "route_planning_agent" /\ last_op.result = "error") =>
        /\ wstate = NodeOutput([message |-> "error"])
        /\ redis.agents_key["route_planning_agent"] = "monitoring"
        /\ redis.state_key.agent_states["route_planning_agent"] = "monitoring"
        /\ pc = "orchestrator"
        /\ outcome = "running"

\* C19: _execute_route_plans has raised after marking a vehicle Moving, and the
\* run is back at the orchestrator below the recursion limit
C19_RoutePlanningRaisedMidRun ==
    /\ last_op.name = "route_planning_agent"
    /\ last_op.result = "error"
    /\ \E v \in DOMAIN HashVehicles : HashVehicles[v].state = "moving"
    /\ supersteps < RecursionLimit

\* a step taken while the system is stopped leaves the store, the agents and
\* the workflow alone and hands back an error
StoppedStepRefused ==
    (~is_running /\ ~is_running') =>
        /\ redis' = redis
        /\ messages' = messages
        /\ pc' = "idle"
        /\ runs' = runs
        /\ dispatches' = dispatches
        /\ last_op'.name \in {"process_new_order", "run_workflow_cycle"}
        /\ last_op'.result = "error"

\* C21: between stop_system and the next start_system, run_workflow_cycle and
\* process_new_order return an error without invoking a worker and without
\* changing the store.
C21_StoppedSystemRefusesCalls == [][StoppedStepRefused]_vars

\* C21: a new order refused by a system that was stopped after it had stored
\* orders and run the workflow
C21_OrderRefusedAfterStop ==
    /\ ~is_running
    /\ last_op.name = "process_new_order"
    /\ last_op.result = "error"
    /\ runs > 0
    /\ DOMAIN redis.orders_key # {}

\* the worker the priority order asks for, from the store and the
\* orchestrator's sets as they are when the step begins
PriorityChoice ==
    IF OrdersIn(get_system_state(redis), "new") \ processed_orders # {} THEN "order_ingestion_agent"
    ELSE IF (OrdersIn(get_system_state(redis), "new") \cap processed_orders)
                \ failed_assignments # {}
         THEN "vehicle_assignment_agent"
    ELSE IF OrdersIn(get_system_state(redis), "assigned") # {} THEN "route_planning_agent"
    ELSE IF OrdersIn(get_system_state(redis), "failed") # {} THEN "exception_handling_agent"
    ELSE "END"

OrchestratorStepFollowsPriority ==
    (pc = "orchestrator" /\ last_op'.name = "orchestrate" /\ last_op'.result # "error") =>
        /\ last_op'.result = PriorityChoice
        /\ pc' = IF PriorityChoice = "END" THEN "idle" ELSE PriorityChoice

\* C22: every orchestrator step selects exactly one of intake, assignment,
\* route planning, exception handling and termination, the first in that order
\* whose condition holds: unseen New orders, seen New orders not marked as
\* failed assignments, Assigned orders, Failed orders.
C22_RoutingFollowsPriorityOrder == [][OrchestratorStepFollowsPriority]_vars

\* C22: a step that went to the exception handler, the last worker in the order
C22_ExceptionHandlerSelectedLast ==
    /\ last_op.name = "orchestrate"
    /\ last_op.result = "exception_handling_agent"
    /\ pc = "exception_handling_agent"
    /\ OrdersIn(get_system_state(redis), "failed") # {}

\* C23: when run_workflow starts a run, the seen set, the failed-assignment set
\* and the no-vehicle counter are empty / zero.
C23_RunStartsWithFreshBookkeeping ==
    last_op.name = "run_workflow" =>
        /\ processed_orders = {}
        /\ failed_assignments = {}
        /\ no_vehicle_attempts = 0

\* C26: within a run the step count of the orchestrator goes up by one on
\* every orchestrator step, also on those that follow a worker: after each
\* orchestrator step it equals the number of orchestrator steps of the run.
C26_StepCountCountsOrchestratorSteps ==
    last_op.name = "orchestrate" =>
        current_step_count = supersteps - dispatches

C25_CeilingEndsRunUntouched ==
    (last_op.name = "orchestrate" /\ current_step_count > STEP_CEILING) =>
        /\ outcome = "force_end"
        /\ pc = "idle"
        /\ last_op.result = "END"
        /\ redis = last_op.pre
        /\ message_queue = last_op.arg
        /\ dispatches = 0

\* C25: the run was ended by the ceiling while a message was queued and a New
\* order waited
C25_CeilingHitWithWorkPending ==
    /\ last_op.name = "orchestrate"
    /\ current_step_count > STEP_CEILING
    /\ message_queue # <<>>
    /\ OrdersIn(get_system_state(redis), "new") # {}

\* C27: the escalation check answers true exactly when the record's severity
\* is critical, or its type escalates after 0 minutes, or more minutes than
\* the type's auto_escalate_after_minutes have passed since the record was
\* created, or its retry count has reached the type's max_retry_attempts;
\* in every other case it answers false.
C27_EscalationCheckMatchesRule ==
    last_op.name = "should_escalate" =>
        LET rec == exception_agent.active_exceptions[last_op.arg]
            elapsed == now - rec.occurred_at
        IN last_op.result = (\/ rec.severity = "critical"
                             \/ auto_escalate_after_minutes(rec.type) = 0
                             \/ elapsed > auto_escalate_after_minutes(rec.type)
                             \/ rec.retry_count >= max_retry_attempts(rec.type))

\* C27 witness: the check fires for the waiting time alone, one step of the
\* clock after the record's waiting time was reached.
C27_EscalationDueToElapsedTime ==
    /\ last_op.name = "should_escalate"
    /\ last_op.result = TRUE
    /\ LET rec == exception_agent.active_exceptions[last_op.arg]
       IN /\ rec.severity # "critical"
          /\ auto_escalate_after_minutes(rec.type) > 0
          /\ now - rec.occurred_at = auto_escalate_after_minutes(rec.type) + ElapseStep
          /\ rec.retry_count < max_retry_attempts(rec.type)

\* C28: each escalation raises the record's escalation_level by exactly 1 and
\* sends the record to the entry of its type's escalation path at the new
\* level (the first entry at level 1), or to the supervisor once the level is
\* past the end of the path; no step lowers a level.
EscalationsOfStep ==
    LET old == exception_agent.active_exceptions
        new == exception_agent'.active_exceptions
        OldLevel(i) == IF i <= Len(old) THEN old[i].escalation_level ELSE 0
        raised == {i \in 1..Len(new) : new[i].escalation_level # OldLevel(i)}
        Forwarded(i) ==
            LET level == new[i].escalation_level
                path == escalation_path(new[i].type)
            IN AgentMessage("exception_handling_agent",
                            IF level <= Len(path) THEN path[level] ELSE "supervisor_agent",
                            "exception_escalation", <<i, level>>)
        sent == {m \in messages'["exception_handling_agent"] \
                       messages["exception_handling_agent"] :
                    m.sender_agent = "exception_handling_agent" /\ Len(m.ref) = 2}
    IN /\ Len(new) >= Len(old)
       /\ \A i \in 1..Len(new) :
             new[i].escalation_level \in {OldLevel(i), OldLevel(i) + 1}
       /\ sent = {Forwarded(i) : i \in raised}
       /\ (last_op'.name = "escalate_exception" /\ last_op'.result = "escalated")
              => raised = {last_op'.arg}

C28_EscalationClimbsThePath == [][EscalationsOfStep]_vars

\* C28 witness: a record has been escalated past the end of its type's path,
\* the last time to the supervisor, after the path's own entries.
C28_EscalatedPastThePath ==
    \E i \in 1..Len(exception_agent.active_exceptions) :
       LET rec == exception_agent.active_exceptions[i]
           path == escalation_path(rec.type)
       IN /\ last_op.name = "escalate_exception"
          /\ last_op.arg = i
          /\ rec.escalation_level = Len(path) + 1
          /\ path[1] # "supervisor_agent"
          /\ \A level \in 1..Len(path) :
                AgentMessage("exception_handling_agent", path[level],
                             "exception_escalation", <<i, level>>)
                    \in messages["exception_handling_agent"]
          /\ AgentMessage("exception_handling_agent", "supervisor_agent",
                          "exception_escalation", <<i, Len(path) + 1>>)
                 \in messages["exception_handling_agent"]

\* C29: when a handling call for a time-window violation returns, the record
\* it created has been escalated (escalation_level at least 1), whatever the
\* record's severity, the time elapsed and its retry count.
C29_DeadlineViolationEscalatedAtOnce ==
    (last_op.name = "handle_exception" /\ last_op.arg.type = "time_window_violation") =>
        LET active == exception_agent.active_exceptions
        IN /\ Len(active) >= 1
           /\ active[Len(active)].type = "time_window_violation"
           /\ active[Len(active)].occurred_at = now
           /\ active[Len(active)].escalation_level >= 1

\* C29 witness: a time-window violation that is neither critical nor old nor
\* retried has been handled, and was sent to the first entry of its path.
C29_PlainDeadlineViolationHandled ==
    /\ last_op.name = "handle_exception"
    /\ last_op.arg.type = "time_window_violation"
    /\ LET active == exception_agent.active_exceptions
           rec == active[Len(active)]
       IN /\ rec.severity = "high"
          /\ rec.retry_count = 0
          /\ rec.occurred_at = now
          /\ rec.escalation_level = 1
          /\ AgentMessage("exception_handling_agent", "supervisor_agent",
                          "exception_escalation", <<Len(active), 1>>)
                 \in messages["exception_handling_agent"]

\* C30: the severity of a new record is the base severity of its type, one
\* level higher when the report is marked high-priority or time-sensitive or
\* both, never more than one level higher and never above critical.
C30_SeverityIsBaseRaisedOnce ==
    last_op.name = "handle_exception" =>
        LET report == last_op.arg
            active == exception_agent.active_exceptions
            base == base_severities(report.type)
            marked == report.customer_priority = "high" \/ report.time_sensitive
            OneLevelUp(s) == CASE s = "low" -> "medium"
                               [] s = "medium" -> "high"
                               [] OTHER -> "critical"
        IN active[Len(active)].severity = IF marked THEN OneLevelUp(base) ELSE base

\* C31: the emergency flag goes from unset to set only in an activation whose
\* critical-conflict count is above the threshold of 3; a request with 3 or
\* fewer critical conflicts never sets it.
EmergencyFlagSetAboveThreshold ==
    (~exception_agent.emergency_protocols_active
        /\ exception_agent'.emergency_protocols_active)
        => /\ last_op'.name = "emergency_activation"
           /\ last_op'.arg > BackupFleetThreshold

C31_EmergencyFlagNeedsMoreThanThreeConflicts == [][EmergencyFlagSetAboveThreshold]_vars

\* C32: after rebalance_vehicle on an overloaded vehicle, when every excess
\* order has another vehicle that can take it, the vehicle holds at most
\* max_orders orders, the orders taken off it are its lowest-priority ones,
\* each of them is on exactly one other vehicle, and the receiving vehicles
\* keep the orders they held before.
C32_RebalanceRelievesTheVehicle ==
    (last_op.name = "rebalance_vehicle" /\ last_op.result = "rebalanced") =>
        LET pre == last_op.pre
            v == last_op.arg
            before == pre.vehicles_key[v]
            others == DOMAIN pre.vehicles_key \ {v}
            held == SeqToSet(before.assigned_orders)
            kept == SeqToSet(redis.vehicles_key[v].assigned_orders)
            taken == held \ kept
            feasible ==
                \A o \in held : \E w \in others :
                   /\ pre.vehicles_key[w].state \in {"idle", "assigned"}
                   /\ check_capacity_constraints(pre.vehicles_key[w], pre.orders_key[o])
        IN feasible =>
             /\ Len(redis.vehicles_key[v].assigned_orders) <= before.max_orders
             /\ kept \subseteq held
             /\ \A o \in taken : \A q \in kept :
                   pre.orders_key[o].priority <= pre.orders_key[q].priority
             /\ \A o \in taken :
                   Cardinality({w \in others :
                       o \in SeqToSet(redis.vehicles_key[w].assigned_orders)}) = 1
             /\ \A w \in others :
                   SeqToSet(pre.vehicles_key[w].assigned_orders)
                       \subseteq SeqToSet(redis.vehicles_key[w].assigned_orders)

\* C33: once the Route Planner has planned a vehicle's route and set it
\* Moving, every order assigned to that vehicle is EnRoute; none is still
\* Assigned.
C33_RoutedVehicleOrdersEnRoute ==
    last_op.name = "route_planning_agent" =>
        \A v \in DOMAIN redis.vehicles_key :
           (redis.vehicles_key[v].state = "moving"
               /\ last_op.pre.vehicles_key[v].state = "assigned") =>
              \A i \in 1..Len(redis.vehicles_key[v].assigned_orders) :
                 LET o == redis.vehicles_key[v].assigned_orders[i]
                 IN o \in DOMAIN redis.orders_key => redis.orders_key[o].state = "en_route"

\* C34: when the Route Planner runs, every vehicle that is Assigned with a
\* non-empty assigned_orders list at that moment is routed and set Moving by
\* that invocation, whether or not it was routed in an earlier run.
C34_EveryAssignedVehicleRouted ==
    last_op.name = "route_planning_agent" =>
        \A v \in DOMAIN last_op.pre.vehicles_key :
           (last_op.pre.vehicles_key[v].state = "assigned"
               /\ last_op.pre.vehicles_key[v].assigned_orders # <<>>) =>
              /\ redis.vehicles_key[v].state = "moving"
              /\ v \in calculated_routes

\* The stops are, for every assigned order, one pickup followed at once by
\* that order's delivery, and nothing else.
PickupThenDeliveryPerOrder(route_stops, n) ==
    /\ Len(route_stops) = 2 * n
    /\ \A k \in 1..n :
          /\ route_stops[2 * k - 1].type = "pickup"
          /\ route_stops[2 * k].type = "delivery"
          /\ route_stops[2 * k].order_id = route_stops[2 * k - 1].order_id
    /\ \A o \in 1..n : \E k \in 1..n : route_stops[2 * k - 1].order_id = o

\* A strategy that returns a stop sequence returns one of that shape.
ReturnedRouteIsPickupDeliveryPairs ==
    (routing.pc = "done" /\ routing.status = "returned")
        => PickupThenDeliveryPerOrder(routing.route_stops, Len(routing.orders))

\* C35: whichever of the three strategies plans the route, the call ends by
\* returning a stop sequence that holds, for every order assigned to the
\* vehicle, exactly one pickup immediately followed by that order's
\* delivery, and no other stop.
C35_EveryStrategyReturnsPickupDeliveryPairs ==
    routing.pc = "done"
        => /\ routing.status = "returned"
           /\ PickupThenDeliveryPerOrder(routing.route_stops, Len(routing.orders))

RECURSIVE ActualLoad(_, _, _)
\* the sum of a field (weight, volume) over the orders of a list
ActualLoad(ids, orders, field) ==
    IF ids = <<>> THEN 0
    ELSE orders[Head(ids)][field] + ActualLoad(Tail(ids), orders, field)

\* C36: the Assignment Engine never pairs an order with a vehicle when the
\* order's weight (volume) plus the actual weights (volumes) of the orders the
\* vehicle already holds exceeds the vehicle's weight (volume) capacity; the
\* weights being positive, that is: after a pass no vehicle holds orders
\* whose actual weights or volumes add up to more than its capacity.
C36_ActualLoadWithinCapacity ==
    last_op.name = "assign_orders"
        => \A v \in DOMAIN redis.vehicles_key :
              /\ ActualLoad(redis.vehicles_key[v].assigned_orders, redis.orders_key, "weight")
                    <= redis.vehicles_key[v].capacity_weight
              /\ ActualLoad(redis.vehicles_key[v].assigned_orders, redis.orders_key, "volume")
                    <= redis.vehicles_key[v].capacity_volume

\* C37: after any sequence of store operations run one at a time (add_order,
\* update_order, add_vehicle, update_vehicle, add_route, clear_all_data) the
\* whole-snapshot record and the per-entity records hold the same order ids
\* and vehicle ids with the same field values.
C37_SnapshotAgreesWithEntityRecords ==
    /\ redis.state_key.orders = redis.orders_key
    /\ redis.state_key.vehicles = redis.vehicles_key

\* C37 witness: an update_order has changed a stored order while a vehicle
\* and a route are stored too.
C37_UpdatedOrderBesideVehicleAndRoute ==
    /\ last_op.name = "update_order"
    /\ redis # last_op.pre
    /\ DOMAIN redis.vehicles_key # {}
    /\ redis.routes_key # {}

\* A run that leaves no order New or Failed ends through the "no pending
\* actions" branch, and a step that routes to the Route Planner has a
\* vehicle waiting for a route.
RunEndsWhenNoWorkRemains ==
    /\ (outcome = "running" /\ outcome' # "running"
            /\ OrdersIn(get_system_state(redis'), "new") = {}
            /\ OrdersIn(get_system_state(redis'), "failed") = {})
          => outcome' = "no_pending_actions"
    /\ (pc = "orchestrator" /\ pc' = "route_planning_agent")
          => get_vehicles_needing_routes(get_system_state(redis'), calculated_routes) # <<>>

\* C38: in a run where every New order can be assigned and every assigned
\* vehicle can be routed, the run ends through the "no pending actions"
\* branch because no work remains, not because the step threshold, the step
\* ceiling or the recursion limit cut it off, and the Dispatcher never routes
\* to the Route Planner when no vehicle needs a route.
C38_RunEndsBecauseNoWorkRemains == [][RunEndsWhenNoWorkRemains]_vars

\* A step of the Conflict/Escalation Engine inside a run: every record it
\* adds names an order that is Failed, none of them names an order that an
\* active record already names, and it adds no more records than there are
\* Failed orders.
ExceptionStepRecordsFailedOrders ==
    pc = "exception_handling_agent" =>
        LET before == exception_agent.active_exceptions
            after == exception_agent'.active_exceptions
            failed_orders == OrdersIn(get_system_state(redis), "failed")
            added == (Len(before) + 1)..Len(after)
        IN /\ \A i \in added :
                 /\ after[i].order_id \in failed_orders
                 /\ \A j \in 1..(i - 1) :
                       after[j].status = "active" => after[j].order_id # after[i].order_id
           /\ Cardinality(added) <= Cardinality(failed_orders)

\* C39: during one run every Exception Record the Conflict/Escalation Engine
\* creates because the Dispatcher routed to it for Failed orders names one of
\* those Failed orders, and the active records created never outnumber the
\* Failed orders: no further record per step for the same failure.
C39_OneRecordPerFailedOrder == [][ExceptionStepRecordsFailedOrders]_vars

\* The store writes of an assignment step leave every vehicle that is in
\* Maintenance as it is: same state, same orders.
AssignmentSparesVehiclesInMaintenance ==
    conc.wpc = "execute_assignments" /\ conc'.wpc = "done" =>
        \A v \in DOMAIN redis.vehicles_key :
            redis.vehicles_key[v].state = "maintenance"
                => /\ redis'.vehicles_key[v].state = "maintenance"
                   /\ redis'.vehicles_key[v].assigned_orders
                         = redis.vehicles_key[v].assigned_orders

\* C40: a vehicle that a breakdown report has put in Maintenance is not given
\* new orders and is not set back to Assigned by an Assignment Engine step,
\* also when the report is handled between the step's read of the snapshot
\* and its store writes.
C40_MaintenanceVehicleGetsNoOrders == [][AssignmentSparesVehiclesInMaintenance]_vars

============================================================================
